---------------------------- MODULE Spec2Model ----------------------------
(***************************************************************************)
(* A model of the GTFS data store of trainbot (src/bot/gtfs): the static   *)
(* maps, the materialized trip / stop-time instances of the rolling        *)
(* three-day window, the realtime setters and the time-range query, plus   *)
(* the static reload task, the realtime poll task and the provider's       *)
(* query handlers that share the store.                                    *)
(*                                                                         *)
(* Dates are day numbers since 1970-01-01, instants are hours since the    *)
(* epoch.  A Python dict is a function whose DOMAIN is the key set; where  *)
(* the code iterates a dict and the order is observable, the dict is a     *)
(* sequence in insertion order.  A defaultdict access that misses inserts  *)
(* the key, as in Python.                                                  *)
(***************************************************************************)
EXTENDS Integers, Sequences, FiniteSets, TLC

VARIABLES
    store,      \* GtfsDataStore: one field per map of __init__
    today,      \* datetime.date.today()
    loads,      \* number of static loads performed so far
    patches,    \* number of realtime calls performed so far
    last,       \* the last operation: its name, arguments and result
    health,     \* HealthTracker value of GTFS_AVAILABLE
    notify,     \* health publications not yet delivered to the realtime handler
    tracker_awaits, \* whether set_health waits for its subscribers
    static_pc,  \* position of StaticGtfsHandler._update_static_gtfs_data
    zip,        \* the dataset downloaded by the current static tick
    last_updated,     \* StaticGtfsHandler._last_updated
    generation, \* which dataset the store holds, and whether completely
    rt_pc,      \* position of RealtimeGtfsHandler._update_gtfs_realtime_data
    static_available, \* RealtimeGtfsHandler._static_available
    svc,        \* the service under evaluation (calendar specification)
    svc_date    \* the date under evaluation (calendar specification)

vars == <<store, today, loads, patches, last, health, notify, tracker_awaits,
          static_pc, zip, last_updated, generation, rt_pc, static_available,
          svc, svc_date>>

concVars == <<health, notify, tracker_awaits, static_pc, zip, last_updated,
              generation, rt_pc, static_available>>
calVars == <<svc, svc_date>>

---------------------------------------------------------------------------
(* Bounds of the model *)

MaxLoads == 2
MaxDayAdvance == 2
MaxPatches == 2
MaxTicks == 2

\* the frames the interpreter allows the recursive walk; a walk of the three
\* stops needs at most three
RecursionLimit == 4

(* Program constants *)

MAX_SEARCH_RESULTS == 25
HoursPerDay == 24
TzOffsetHours == 10
CANCELLED_TRIP_SCHEDULE_RELATIONSHIP == 3
SKIPPED_STOP_SCHEDULE_RELATIONSHIP == 1

\* 2024-01-01, a Monday, as a day number: 2817 weeks and 4 days after the epoch
Today0 == 2817 * 7 + 4

None == "<None>"
NoTime == -1

---------------------------------------------------------------------------
(* Helpers *)

Range(s) == {s[i] : i \in DOMAIN s}

\* m[k] on a defaultdict: the map after the access
Touch(m, k, default) ==
    IF k \in DOMAIN m THEN m
    ELSE [x \in DOMAIN m \cup {k} |-> IF x = k THEN default ELSE m[x]]

\* m[k] = v on a dict
Put(m, k, v) == [x \in DOMAIN m \cup {k} |-> IF x = k THEN v ELSE m[x]]

EmptyMap == [x \in {} |-> 0]

\* str.lower() on the ids that occur
Lower(id) ==
    CASE id = "T1" -> "t1"
      [] id = "T2" -> "t2"
      [] id = "A" -> "a"
      [] id = "B" -> "b"
      [] id = "C" -> "c"
      [] id = "R1" -> "r1"
      [] id = "SV1" -> "sv1"
      [] OTHER -> id

\* datetime.date.weekday(): Monday is 0; 1970-01-01 was a Thursday
weekday(d) == (d + 3) % 7

\* datetime.combine(date, time(), tzinfo=local_timezone) + offset, as an instant
Localize(date, offset) == date * HoursPerDay - TzOffsetHours + offset

\* datetime.fromtimestamp(t, utc).astimezone(BRISBANE): the same instant
FromTimestamp(t) == t

\* a text is the sequence of its characters
Digits == <<"0", "1", "2", "3", "4", "5", "6", "7", "8", "9">>

\* the text HH:MM:SS of a time field of stop_times.txt
hhmmss(h, m, s) ==
    <<Digits[(h \div 10) + 1], Digits[(h % 10) + 1], ":",
      Digits[(m \div 10) + 1], Digits[(m % 10) + 1], ":",
      Digits[(s \div 10) + 1], Digits[(s % 10) + 1]>>

\* str.split(sep)
RECURSIVE split(_, _)
split(text, sep) ==
    IF \A i \in DOMAIN text : text[i] # sep THEN <<text>>
    ELSE LET k == CHOOSE i \in DOMAIN text :
                     text[i] = sep /\ \A j \in 1..(i - 1) : text[j] # sep
         IN <<SubSeq(text, 1, k - 1)>> \o split(SubSeq(text, k + 1, Len(text)), sep)

\* int(text) of a decimal numeral
RECURSIVE int(_)
int(text) ==
    IF text = <<>> THEN 0
    ELSE (int(SubSeq(text, 1, Len(text) - 1)) * 10)
             + (CHOOSE v \in 0..9 : Digits[v + 1] = text[Len(text)])

\* datetime.timedelta(hours=, minutes=, seconds=): the sum of the three, in
\* the whole hours the model counts durations in
timedelta(hours, minutes, seconds) ==
    ((hours * 3600) + (minutes * 60) + seconds) \div 3600

\* faulty variant: the text is read as a time of day
load_time_of_day(time) ==
    LET fields == split(time, ":")
    IN timedelta(int(fields[1]) % HoursPerDay, int(fields[2]), int(fields[3]))

\* _load_time: hours, minutes, seconds = map(int, time.split(":"))
load_time(time) ==
    LET fields == split(time, ":")
    IN timedelta(int(fields[1]), int(fields[2]), int(fields[3]))

---------------------------------------------------------------------------
(* Static datasets: the rows of the zip's tables *)

RouteRows == <<[route_id |-> "r1", route_type |-> "RAIL"],
               [route_id |-> "r2", route_type |-> "BUS"]>>

\* calendar.txt; exceptions is the map the loader collects from the rows of
\* calendar_dates.txt for the service and hands over with the service
ServiceRows ==
    <<[service_id |-> "sv1", days |-> 0..6,
       start_date |-> Today0, end_date |-> Today0 + 30,
       exceptions |-> EmptyMap],
      [service_id |-> "sv2", days |-> {0, 2},
       start_date |-> Today0, end_date |-> Today0 + 30,
       exceptions |-> [d \in {Today0 + 1, Today0 + 2} |-> d = Today0 + 1]]>>

TripRowT1 == [trip_id |-> "t1", route_id |-> "r1", service_id |-> "sv1",
              direction_id |-> "0"]
TripRowT2 == [trip_id |-> "t2", route_id |-> "r2", service_id |-> "sv2",
              direction_id |-> "1"]

StopTimeRowsT1 ==
    <<[trip_id |-> "t1", stop_sequence |-> 1, stop_id |-> "b",
       arrival_time |-> hhmmss(8, 0, 0),
       departure_time |-> hhmmss(8, 0, 0), pickup_type |-> "0"],
      [trip_id |-> "t1", stop_sequence |-> 2, stop_id |-> "c",
       arrival_time |-> hhmmss(9, 0, 0),
       departure_time |-> hhmmss(9, 0, 0), pickup_type |-> "1"]>>
StopTimeRowsT2 ==
    <<[trip_id |-> "t2", stop_sequence |-> 1, stop_id |-> "c",
       arrival_time |-> hhmmss(8, 0, 0),
       departure_time |-> hhmmss(8, 0, 0), pickup_type |-> "0"],
      [trip_id |-> "t2", stop_sequence |-> 2, stop_id |-> "a",
       arrival_time |-> hhmmss(25, 0, 0),
       departure_time |-> hhmmss(25, 0, 0), pickup_type |-> "0"]>>

StopTables ==
    { <<[stop_id |-> "a", parent_station |-> ""],
        [stop_id |-> "b", parent_station |-> ""],
        [stop_id |-> "c", parent_station |-> ""]>>,
      <<[stop_id |-> "a", parent_station |-> ""],
        [stop_id |-> "b", parent_station |-> "a"],
        [stop_id |-> "c", parent_station |-> "a"]>>,
      <<[stop_id |-> "a", parent_station |-> ""],
        [stop_id |-> "b", parent_station |-> "a"],
        [stop_id |-> "c", parent_station |-> "b"]>> }

Datasets ==
    { [routes |-> RouteRows, services |-> ServiceRows,
       trips |-> <<TripRowT1, TripRowT2>>, stops |-> st,
       stop_times |-> StopTimeRowsT1 \o StopTimeRowsT2] : st \in StopTables }

---------------------------------------------------------------------------
(* GtfsDataStore *)

EmptyStore ==
    [routes |-> EmptyMap,
     services_exceptions |-> EmptyMap,
     services |-> EmptyMap,
     trips |-> <<>>,
     trips_by_route |-> EmptyMap,
     trips_by_service |-> EmptyMap,
     stops |-> <<>>,
     children_stops |-> EmptyMap,
     stop_times_by_trip |-> EmptyMap,
     route_types_by_stop |-> EmptyMap,
     trip_instances_by_date |-> EmptyMap,
     stop_time_instances_by_date |-> EmptyMap,
     stop_time_instances_by_stop |-> EmptyMap]

\* an insertion-ordered dict of records keyed by their id
HasId(d, id) == \E i \in DOMAIN d : d[i].id = id
IndexOfId(d, id) == CHOOSE i \in DOMAIN d : d[i].id = id
GetById(d, id) == d[IndexOfId(d, id)]
PutById(d, rec) ==
    IF HasId(d, rec.id) THEN [d EXCEPT ![IndexOfId(d, rec.id)] = rec]
    ELSE Append(d, rec)

clear(s) ==
    [s EXCEPT !.routes = EmptyMap,
              !.services = EmptyMap,
              !.trips = <<>>,
              !.trips_by_route = EmptyMap,
              !.trips_by_service = EmptyMap,
              !.stops = <<>>,
              !.stop_times_by_trip = EmptyMap,
              !.trip_instances_by_date = EmptyMap,
              !.stop_time_instances_by_date = EmptyMap,
              !.stop_time_instances_by_stop = EmptyMap]

add_route(s, data) ==
    [s EXCEPT !.routes = Put(@, Lower(data.route_id), [type |-> data.route_type])]

\* the exceptions of a service are keyed by the id as the row carries it
add_service_exception(s, data) ==
    [s EXCEPT !.services_exceptions =
        Put(@, data.service_id,
            Put(Touch(@, data.service_id, EmptyMap)[data.service_id],
                data.date, data.exception_type = 1))]

\* the Service is built from the columns of the calendar row
add_service(s, data) ==
    [s EXCEPT !.services =
        Put(@, Lower(data.service_id),
            [id |-> Lower(data.service_id), days |-> data.days,
             start_date |-> data.start_date, end_date |-> data.end_date])]

add_trip(s, data) ==
    LET trip == [id |-> Lower(data.trip_id),
                 route_id |-> Lower(data.route_id),
                 service_id |-> Lower(data.service_id),
                 direction |-> IF data.direction_id = "1" THEN "UPWARD"
                               ELSE "DOWNWARD"]
    IN [s EXCEPT
          !.trips = PutById(@, trip),
          !.trips_by_route =
              Put(@, trip.route_id,
                  Append(Touch(@, trip.route_id, <<>>)[trip.route_id], trip.id)),
          !.trips_by_service =
              Put(@, trip.service_id,
                  Append(Touch(@, trip.service_id, <<>>)[trip.service_id], trip.id))]

add_stop(s, data) ==
    LET parent == IF Lower(data.parent_station) = "" THEN None
                  ELSE Lower(data.parent_station)
        stop == [id |-> Lower(data.stop_id), parent_station_id |-> parent]
    IN [s EXCEPT
          !.stops = PutById(@, stop),
          !.children_stops =
              IF parent = None THEN @
              ELSE Put(@, parent, Append(Touch(@, parent, <<>>)[parent], stop.id))]

add_stop_time(s, data) ==
    LET stop_time == [trip_id |-> Lower(data.trip_id),
                      sequence |-> data.stop_sequence,
                      stop_id |-> Lower(data.stop_id),
                      arrival_time |-> load_time(data.arrival_time),
                      departure_time |-> load_time(data.departure_time),
                      terminates |-> data.pickup_type = "1"]
        route_type == s.routes[GetById(s.trips, stop_time.trip_id).route_id].type
    IN [s EXCEPT
          !.stop_times_by_trip =
              Put(@, stop_time.trip_id,
                  Append(Touch(@, stop_time.trip_id, <<>>)[stop_time.trip_id],
                         stop_time)),
          !.route_types_by_stop =
              Put(@, stop_time.stop_id,
                  Touch(@, stop_time.stop_id, {})[stop_time.stop_id]
                      \cup {route_type})]

\* faulty variant: an exception can add a date, never remove one
runs_on_exceptions_only_add(service, date) ==
    \/ date \in DOMAIN service.exceptions /\ service.exceptions[date]
    \/ /\ service.start_date <= date
       /\ date <= service.end_date
       /\ weekday(date) \in service.days

\* Service.runs_on
runs_on(service, date) ==
    IF date \in DOMAIN service.exceptions THEN service.exceptions[date]
    ELSE /\ service.start_date <= date
         /\ date <= service.end_date
         /\ weekday(date) \in service.days

\* dict.get(id.lower()): <<entry>>, or <<>> where the code raises ValueError
get_route(s, route_id) ==
    IF Lower(route_id) \in DOMAIN s.routes THEN <<s.routes[Lower(route_id)]>>
    ELSE <<>>

get_service(s, service_id) ==
    IF Lower(service_id) \in DOMAIN s.services
    THEN <<s.services[Lower(service_id)]>> ELSE <<>>

get_trip(s, trip_id) ==
    IF HasId(s.trips, Lower(trip_id)) THEN <<GetById(s.trips, Lower(trip_id))>>
    ELSE <<>>

get_stop(s, stop_id) ==
    IF HasId(s.stops, Lower(stop_id)) THEN <<GetById(s.stops, Lower(stop_id))>>
    ELSE <<>>

\* _services_exceptions[service_id.lower()] on the defaultdict
get_service_exceptions(s, service_id) ==
    Touch(s.services_exceptions, Lower(service_id), EmptyMap)[Lower(service_id)]

\* a stored Service as runs_on sees it: its exceptions are those the store
\* holds for its id
ServiceOf(s, service_id) ==
    [days |-> s.services[service_id].days,
     start_date |-> s.services[service_id].start_date,
     end_date |-> s.services[service_id].end_date,
     exceptions |-> get_service_exceptions(s, s.services[service_id].id)]

\* TripInstance.__init__
TripInstance(trip, date) ==
    [id |-> trip.id, route_id |-> trip.route_id, service_id |-> trip.service_id,
     direction |-> trip.direction, date |-> date, cancelled |-> FALSE]

\* StopTimeInstance.__init__
StopTimeInstance(stop_time, date) ==
    [trip_id |-> stop_time.trip_id, sequence |-> stop_time.sequence,
     stop_id |-> stop_time.stop_id, arrival_time |-> stop_time.arrival_time,
     departure_time |-> stop_time.departure_time,
     terminates |-> stop_time.terminates, date |-> date, skipped |-> FALSE,
     actual_arrival_time |-> NoTime, actual_departure_time |-> NoTime]

scheduled_arrival_time(inst) == Localize(inst.date, inst.arrival_time)

scheduled_departure_time(inst) == Localize(inst.date, inst.departure_time)

actual_arrival_time(inst) ==
    IF inst.actual_arrival_time # NoTime THEN inst.actual_arrival_time
    ELSE scheduled_arrival_time(inst)

actual_departure_time(inst) ==
    IF inst.actual_departure_time # NoTime THEN inst.actual_departure_time
    ELSE scheduled_departure_time(inst)

\* _stop_time_instances_by_date[date]: an insertion-ordered dict
\* trip id -> (insertion-ordered dict sequence -> StopTimeInstance)
HasTrip(byTrip, trip_id) == \E i \in DOMAIN byTrip : byTrip[i].trip_id = trip_id
IndexOfTrip(byTrip, trip_id) == CHOOSE i \in DOMAIN byTrip : byTrip[i].trip_id = trip_id
TouchTrip(byTrip, trip_id) ==
    IF HasTrip(byTrip, trip_id) THEN byTrip
    ELSE Append(byTrip, [trip_id |-> trip_id, insts |-> <<>>])
InstsOf(byTrip, trip_id) ==
    IF HasTrip(byTrip, trip_id) THEN byTrip[IndexOfTrip(byTrip, trip_id)].insts
    ELSE <<>>
HasSeq(insts, sequence) == \E i \in DOMAIN insts : insts[i].sequence = sequence
IndexOfSeq(insts, sequence) == CHOOSE i \in DOMAIN insts : insts[i].sequence = sequence
PutInst(byTrip, inst) ==
    LET t == TouchTrip(byTrip, inst.trip_id)
        k == IndexOfTrip(t, inst.trip_id)
    IN [t EXCEPT ![k].insts =
          IF HasSeq(@, inst.sequence)
          THEN [@ EXCEPT ![IndexOfSeq(@, inst.sequence)] = inst]
          ELSE Append(@, inst)]


Ref(inst) == [date |-> inst.date, trip_id |-> inst.trip_id, sequence |-> inst.sequence]

\* the object a stop list entry refers to
Deref(s, ref) ==
    LET insts == InstsOf(s.stop_time_instances_by_date[ref.date], ref.trip_id)
    IN insts[IndexOfSeq(insts, ref.sequence)]

---------------------------------------------------------------------------
(* Instance materializer.  An operation that raises leaves the store as it *)
(* was at the raise: r.s is the store, r.raised whether it raised.         *)

RECURSIVE CreateStopTimeInstances(_, _, _, _)
CreateStopTimeInstances(r, trip, date, i) ==
    LET stop_times == r.s.stop_times_by_trip[trip.id]
    IN IF r.raised \/ i > Len(stop_times) THEN r
       ELSE IF ~HasId(r.s.stops, stop_times[i].stop_id)
            THEN [r EXCEPT !.raised = TRUE]
            ELSE CreateStopTimeInstances(
                     [r EXCEPT !.s.stop_time_instances_by_date =
                         Put(@, date,
                             PutInst(Touch(@, date, <<>>)[date],
                                     StopTimeInstance(stop_times[i], date)))],
                     trip, date, i + 1)

\* faulty variant: the calendar of the service is not consulted
CreateTripInstanceOnEveryDate(r, trip, date) ==
    IF trip.service_id \notin DOMAIN r.s.services
    THEN [r EXCEPT !.raised = TRUE]
    ELSE IF trip.route_id \notin DOMAIN r.s.routes
    THEN [r EXCEPT !.raised = TRUE]
    ELSE CreateStopTimeInstances(
             [r EXCEPT !.s.trip_instances_by_date[date] =
                           Put(@, trip.id, TripInstance(trip, date)),
                       !.s.stop_times_by_trip = Touch(@, trip.id, <<>>)],
             trip, date, 1)

CreateTripInstance(r, trip, date) ==
    IF trip.service_id \notin DOMAIN r.s.services
    THEN [r EXCEPT !.raised = TRUE]
    ELSE LET r1 == [r EXCEPT !.s.services_exceptions =
                                 Touch(@, trip.service_id, EmptyMap)]
         IN IF ~runs_on(ServiceOf(r.s, trip.service_id), date) THEN r1
            ELSE IF trip.route_id \notin DOMAIN r.s.routes
            THEN [r1 EXCEPT !.raised = TRUE]
            ELSE CreateStopTimeInstances(
                     [r1 EXCEPT !.s.trip_instances_by_date[date] =
                                    Put(@, trip.id, TripInstance(trip, date)),
                                !.s.stop_times_by_trip = Touch(@, trip.id, <<>>)],
                     trip, date, 1)

RECURSIVE CreateForTrips(_, _, _)
CreateForTrips(r, date, i) ==
    IF r.raised \/ i > Len(r.s.trips) THEN r
    ELSE CreateForTrips(CreateTripInstance(r, r.s.trips[i], date), date, i + 1)

\* the values of a date's map, in iteration order
RECURSIVE Flatten(_)
Flatten(byTrip) ==
    IF byTrip = <<>> THEN <<>>
    ELSE Head(byTrip).insts \o Flatten(Tail(byTrip))

RECURSIVE AppendToStops(_, _)
AppendToStops(byStop, insts) ==
    IF insts = <<>> THEN byStop
    ELSE AppendToStops(
             Put(byStop, Head(insts).stop_id,
                 Append(Touch(byStop, Head(insts).stop_id, <<>>)[Head(insts).stop_id],
                        Ref(Head(insts)))),
             Tail(insts))

IndexInstances(s, date) ==
    LET byDate == Touch(s.stop_time_instances_by_date, date, <<>>)
    IN [s EXCEPT !.stop_time_instances_by_date = byDate,
                 !.stop_time_instances_by_stop =
                     AppendToStops(@, Flatten(byDate[date]))]

\* faulty variant: the date is materialized again although it holds instances
MaterializeDateUnguarded(r, date) ==
    IF r.raised THEN r
    ELSE LET s1 == [r.s EXCEPT !.trip_instances_by_date = Touch(@, date, EmptyMap)]
             r2 == CreateForTrips([r EXCEPT !.s = s1], date, 1)
         IN IF r2.raised THEN r2
            ELSE [r2 EXCEPT !.s = IndexInstances(r2.s, date)]

MaterializeDate(r, date) ==
    IF r.raised THEN r
    ELSE LET s1 == [r.s EXCEPT !.trip_instances_by_date = Touch(@, date, EmptyMap)]
         IN IF DOMAIN s1.trip_instances_by_date[date] # {}
            THEN [r EXCEPT !.s = s1]
            ELSE LET r2 == CreateForTrips([r EXCEPT !.s = s1], date, 1)
                 IN IF r2.raised THEN r2
                    ELSE [r2 EXCEPT !.s = IndexInstances(r2.s, date)]

\* yesterday, today and tomorrow
Window(day) == {day - 1, day, day + 1}

create_trip_instances(s, day) ==
    MaterializeDate(
        MaterializeDate(
            MaterializeDate([s |-> s, raised |-> FALSE], day - 1),
            day),
        day + 1).s

\* faulty variant: the stop lists are not pruned
remove_old_trip_instances_keeps_lists(s, day) ==
    LET yesterday == day - 1
        Keep(m) == [d \in {x \in DOMAIN m : ~(x < yesterday)} |-> m[d]]
    IN [s EXCEPT
          !.trip_instances_by_date = Keep(@),
          !.stop_time_instances_by_date = Keep(@)]

\* faulty variant: the day before yesterday is kept as well
remove_old_trip_instances_keeps_a_day_more(s, day) ==
    LET yesterday == day - 1
        Keep(m) == [d \in {x \in DOMAIN m : ~(x < yesterday - 1)} |-> m[d]]
        Recent(ref) == ref.date >= yesterday - 1
    IN [s EXCEPT
          !.trip_instances_by_date = Keep(@),
          !.stop_time_instances_by_date = Keep(@),
          !.stop_time_instances_by_stop =
              [stop_id \in DOMAIN @ |-> SelectSeq(@[stop_id], Recent)]]

\* faulty variant: yesterday is pruned as well
remove_old_trip_instances_drops_yesterday(s, day) ==
    LET Keep(m) == [d \in {x \in DOMAIN m : ~(x < day)} |-> m[d]]
        Recent(ref) == ref.date >= day
    IN [s EXCEPT
          !.trip_instances_by_date = Keep(@),
          !.stop_time_instances_by_date = Keep(@),
          !.stop_time_instances_by_stop =
              [stop_id \in DOMAIN @ |-> SelectSeq(@[stop_id], Recent)]]

remove_old_trip_instances(s, day) ==
    LET yesterday == day - 1
        Keep(m) == [d \in {x \in DOMAIN m : ~(x < yesterday)} |-> m[d]]
        Recent(ref) == ref.date >= yesterday
    IN [s EXCEPT
          !.trip_instances_by_date = Keep(@),
          !.stop_time_instances_by_date = Keep(@),
          !.stop_time_instances_by_stop =
              [stop_id \in DOMAIN @ |-> SelectSeq(@[stop_id], Recent)]]

---------------------------------------------------------------------------
(* Realtime setters *)

HasTripInstance(s, trip_id, date) ==
    /\ date \in DOMAIN s.trip_instances_by_date
    /\ Lower(trip_id) \in DOMAIN s.trip_instances_by_date[date]

HasStopTimeInstance(s, trip_id, date, stop_sequence) ==
    /\ date \in DOMAIN s.stop_time_instances_by_date
    /\ HasSeq(InstsOf(s.stop_time_instances_by_date[date], Lower(trip_id)),
              stop_sequence)

\* faulty variant: the trip instance is replaced together with its stop-time flags
set_trip_instance_status_resets_stops(s, trip_id, date, cancelled) ==
    LET byDate == Touch(s.trip_instances_by_date, date, EmptyMap)
        id == Lower(trip_id)
        Unskip(insts) == [i \in DOMAIN insts |-> [insts[i] EXCEPT !.skipped = FALSE]]
    IN IF id \in DOMAIN byDate[date]
       THEN [s EXCEPT
               !.trip_instances_by_date =
                   [byDate EXCEPT ![date][id].cancelled = cancelled],
               !.stop_time_instances_by_date =
                   IF date \in DOMAIN @
                   THEN [@ EXCEPT ![date] =
                           [k \in DOMAIN @ |->
                               IF @[k].trip_id = id
                               THEN [@[k] EXCEPT !.insts = Unskip(@)]
                               ELSE @[k]]]
                   ELSE @]
       ELSE [s EXCEPT !.trip_instances_by_date = byDate]

\* faulty variant: a trip instance that is missing is created
set_trip_instance_status_upserts(s, trip_id, date, cancelled) ==
    LET byDate == Touch(s.trip_instances_by_date, date, EmptyMap)
        id == Lower(trip_id)
    IN [s EXCEPT !.trip_instances_by_date =
          IF id \in DOMAIN byDate[date]
          THEN [byDate EXCEPT ![date][id].cancelled = cancelled]
          ELSE [byDate EXCEPT ![date] =
                  Put(@, id, [id |-> id, route_id |-> None, service_id |-> None,
                              direction |-> None, date |-> date,
                              cancelled |-> cancelled])]]

set_trip_instance_status(s, trip_id, date, cancelled) ==
    LET byDate == Touch(s.trip_instances_by_date, date, EmptyMap)
        id == Lower(trip_id)
    IN [s EXCEPT !.trip_instances_by_date =
          IF id \in DOMAIN byDate[date]
          THEN [byDate EXCEPT ![date][id].cancelled = cancelled]
          ELSE byDate]

\* _stop_time_instances_by_date[date][trip_id.lower()][stop_sequence].<field> = value
SetStopTimeInstanceField(s, trip_id, date, stop_sequence, field, value) ==
    LET byDate == Touch(s.stop_time_instances_by_date, date, <<>>)
        byTrip == TouchTrip(byDate[date], Lower(trip_id))
        k == IndexOfTrip(byTrip, Lower(trip_id))
    IN [s EXCEPT !.stop_time_instances_by_date =
          Put(byDate, date,
              IF HasSeq(byTrip[k].insts, stop_sequence)
              THEN [byTrip EXCEPT
                      ![k].insts[IndexOfSeq(byTrip[k].insts, stop_sequence)][field]
                          = value]
              ELSE byTrip)]

set_stop_time_instance_status(s, trip_id, date, stop_sequence, skipped) ==
    SetStopTimeInstanceField(s, trip_id, date, stop_sequence, "skipped", skipped)

\* faulty variant: the arrival override moves the departure as well
set_stop_time_actual_arrival_time_moves_departure(s, trip_id, date, stop_sequence, arrival_time) ==
    SetStopTimeInstanceField(
        SetStopTimeInstanceField(s, trip_id, date, stop_sequence,
                                 "actual_arrival_time", arrival_time),
        trip_id, date, stop_sequence, "actual_departure_time", arrival_time)

set_stop_time_actual_arrival_time(s, trip_id, date, stop_sequence, arrival_time) ==
    SetStopTimeInstanceField(s, trip_id, date, stop_sequence,
                             "actual_arrival_time", arrival_time)

set_stop_time_actual_departure_time(s, trip_id, date, stop_sequence, departure_time) ==
    SetStopTimeInstanceField(s, trip_id, date, stop_sequence,
                             "actual_departure_time", departure_time)

---------------------------------------------------------------------------
(* Time-range query *)

RECURSIVE walk_child_stop_ids(_, _)
RECURSIVE WalkChildren(_, _)
walk_child_stop_ids(children, parent_stop_id) ==
    <<parent_stop_id>>
        \o WalkChildren(children,
                        IF parent_stop_id \in DOMAIN children
                        THEN children[parent_stop_id] ELSE <<>>)
WalkChildren(children, kids) ==
    IF kids = <<>> THEN <<>>
    ELSE walk_child_stop_ids(children, Head(kids)) \o WalkChildren(children, Tail(kids))

\* the defaultdict accesses of a query insert the keys they miss
RECURSIVE TouchAll(_, _, _)
TouchAll(m, keys, default) ==
    IF keys = <<>> THEN m
    ELSE TouchAll(Touch(m, Head(keys), default), Tail(keys), default)

\* sorted(..., key=actual_departure_time): stable
InsertSorted(sorted, x) ==
    LET k == Cardinality({i \in DOMAIN sorted :
                 actual_departure_time(sorted[i]) <= actual_departure_time(x)})
    IN SubSeq(sorted, 1, k) \o <<x>> \o SubSeq(sorted, k + 1, Len(sorted))

RECURSIVE SortByDeparture(_)
SortByDeparture(insts) ==
    IF insts = <<>> THEN <<>>
    ELSE InsertSorted(SortByDeparture(SubSeq(insts, 1, Len(insts) - 1)),
                      insts[Len(insts)])

\* faulty variant: the end of the range is inclusive
RECURSIVE InRangeInclusiveEnd(_, _, _, _)
InRangeInclusiveEnd(s, refs, start_time, end_time) ==
    IF refs = <<>> THEN <<>>
    ELSE LET inst == Deref(s, Head(refs))
             rest == InRangeInclusiveEnd(s, Tail(refs), start_time, end_time)
         IN IF start_time <= actual_departure_time(inst)
               /\ actual_departure_time(inst) <= end_time
            THEN <<inst>> \o rest ELSE rest

\* the generator of get_stop_time_instances_between, before sorting
RECURSIVE InRange(_, _, _, _)
InRange(s, refs, start_time, end_time) ==
    IF refs = <<>> THEN <<>>
    ELSE LET inst == Deref(s, Head(refs))
             rest == InRange(s, Tail(refs), start_time, end_time)
         IN IF start_time <= actual_departure_time(inst)
               /\ actual_departure_time(inst) < end_time
            THEN <<inst>> \o rest ELSE rest

RECURSIVE InRangeOfStops(_, _, _, _)
InRangeOfStops(s, stop_ids, start_time, end_time) ==
    IF stop_ids = <<>> THEN <<>>
    ELSE InRange(s,
                 IF Lower(Head(stop_ids)) \in DOMAIN s.stop_time_instances_by_stop
                 THEN s.stop_time_instances_by_stop[Lower(Head(stop_ids))]
                 ELSE <<>>,
                 start_time, end_time)
             \o InRangeOfStops(s, Tail(stop_ids), start_time, end_time)

get_stop_time_instances_between(s, stop_id, start_time, end_time) ==
    SortByDeparture(
        InRangeOfStops(s, walk_child_stop_ids(s.children_stops, Lower(stop_id)),
                       start_time, end_time))

\* the store after the query
StoreAfterQuery(s, stop_id) ==
    LET walked == walk_child_stop_ids(s.children_stops, Lower(stop_id))
    IN [s EXCEPT !.children_stops = TouchAll(@, walked, <<>>),
                 !.stop_time_instances_by_stop = TouchAll(@, walked, <<>>)]

---------------------------------------------------------------------------
(* Static loader: _load_static_gtfs_data feeds the rows into the store in  *)
(* file order and materializes the instances.                              *)

RECURSIVE AddRows(_, _, _)
AddRows(s, kind, rows) ==
    IF rows = <<>> THEN s
    ELSE AddRows(CASE kind = "route" -> add_route(s, Head(rows))
                   [] kind = "service" -> add_service(s, Head(rows))
                   [] kind = "trip" -> add_trip(s, Head(rows))
                   [] kind = "stop" -> add_stop(s, Head(rows))
                   [] kind = "stop_time" -> add_stop_time(s, Head(rows)),
                 kind, Tail(rows))

load_static_gtfs_data(s, ds, day) ==
    create_trip_instances(
        AddRows(AddRows(AddRows(AddRows(AddRows(clear(s),
            "route", ds.routes), "service", ds.services), "trip", ds.trips),
            "stop", ds.stops), "stop_time", ds.stop_times),
        day)

---------------------------------------------------------------------------
(* Realtime applier: _process_trip_update.  A KeyError of a store setter   *)
(* ends the processing of the trip update (the caller catches it).         *)

RECURSIVE ProcessStopTimeUpdates(_, _, _, _)
ProcessStopTimeUpdates(s, trip_id, start_date, updates) ==
    IF updates = <<>> THEN s
    ELSE LET u == Head(updates)
             skipped == u.schedule_relationship = SKIPPED_STOP_SCHEDULE_RELATIONSHIP
             s1 == set_stop_time_instance_status(s, trip_id, start_date,
                                                 u.stop_sequence, skipped)
             s2 == IF u.arrival # NoTime
                   THEN set_stop_time_actual_arrival_time(
                            s1, trip_id, start_date, u.stop_sequence,
                            FromTimestamp(u.arrival))
                   ELSE s1
             s3 == IF u.departure # NoTime
                   THEN set_stop_time_actual_departure_time(
                            s2, trip_id, start_date, u.stop_sequence,
                            FromTimestamp(u.departure))
                   ELSE s2
         IN IF u.stop_id = None \/ u.stop_sequence = NoTime
            THEN ProcessStopTimeUpdates(s, trip_id, start_date, Tail(updates))
            ELSE IF ~HasStopTimeInstance(s, trip_id, start_date, u.stop_sequence)
            THEN s1
            ELSE ProcessStopTimeUpdates(s3, trip_id, start_date, Tail(updates))

process_trip_update(s, trip_update, deleted) ==
    IF trip_update.trip_id = None \/ trip_update.start_date = NoTime THEN s
    ELSE IF deleted THEN s  \* reset_realtime_data is no method of the store: raises
    ELSE LET cancelled == trip_update.schedule_relationship
                              = CANCELLED_TRIP_SCHEDULE_RELATIONSHIP
             s1 == set_trip_instance_status(s, trip_update.trip_id,
                                            trip_update.start_date, cancelled)
         IN IF ~HasTripInstance(s, trip_update.trip_id, trip_update.start_date)
            THEN s1
            ELSE ProcessStopTimeUpdates(s1, trip_update.trip_id,
                                        trip_update.start_date,
                                        trip_update.stop_time_update)

\* whether _process_trip_update leaves with an exception: the AttributeError
\* of the missing reset_realtime_data, or the KeyError of a setter that finds
\* no instance
TripUpdateRaises(s, trip_update, deleted) ==
    /\ trip_update.trip_id # None
    /\ trip_update.start_date # NoTime
    /\ \/ deleted
       \/ ~HasTripInstance(s, trip_update.trip_id, trip_update.start_date)
       \/ \E i \in DOMAIN trip_update.stop_time_update :
             LET u == trip_update.stop_time_update[i]
             IN /\ u.stop_id # None
                /\ u.stop_sequence # NoTime
                /\ ~HasStopTimeInstance(s, trip_update.trip_id,
                                        trip_update.start_date, u.stop_sequence)

---------------------------------------------------------------------------
(* Inputs of the store-level specification *)

RtTripIds == {"T1", "tx"}
RtDates(day) == {day, day + 5}
RtSequences == {1, 9}
RtTimes(day) == {Localize(day, 10)}
QueryStops == {"a", "B"}
QueryWindows(day) ==
    {<<Localize(day, 7), Localize(day, 9)>>,
     <<Localize(day, 8), Localize(day, 11)>>,
     <<Localize(day - 1, 0), Localize(day + 1, 30)>>}

TU_cancel(day) ==
    [trip_id |-> "T1", start_date |-> day, schedule_relationship |-> 3,
     stop_time_update |-> <<>>]
TU_skip(day) ==
    [trip_id |-> "T1", start_date |-> day, schedule_relationship |-> 0,
     stop_time_update |->
        <<[stop_sequence |-> 1, stop_id |-> "b", schedule_relationship |-> 1,
           arrival |-> NoTime, departure |-> NoTime]>>]
TU_delay(day) ==
    [trip_id |-> "T1", start_date |-> day, schedule_relationship |-> 0,
     stop_time_update |->
        <<[stop_sequence |-> 2, stop_id |-> "c", schedule_relationship |-> 0,
           arrival |-> Localize(day, 10), departure |-> NoTime]>>]
TripUpdates(day) == {TU_cancel(day), TU_skip(day), TU_delay(day)}

\* trip updates that address no instance: an unknown trip, a date outside
\* the window
TU_unknown_trip(day) ==
    [trip_id |-> "tx", start_date |-> day, schedule_relationship |-> 3,
     stop_time_update |-> <<>>]
TU_unknown_date(day) ==
    [trip_id |-> "T1", start_date |-> day + 5, schedule_relationship |-> 3,
     stop_time_update |-> <<>>]

\* a trip update for an existing trip instance whose second stop-time update
\* names a stop sequence the trip has not
TU_missing_sequence(day) ==
    [trip_id |-> "T1", start_date |-> day, schedule_relationship |-> 0,
     stop_time_update |->
        <<[stop_sequence |-> 1, stop_id |-> "b", schedule_relationship |-> 1,
           arrival |-> NoTime, departure |-> NoTime],
          [stop_sequence |-> 9, stop_id |-> "zz", schedule_relationship |-> 0,
           arrival |-> Localize(day, 10), departure |-> NoTime],
          [stop_sequence |-> 2, stop_id |-> "c", schedule_relationship |-> 0,
           arrival |-> Localize(day, 10), departure |-> Localize(day, 11)]>>]

FailingTripUpdates(day) ==
    {TU_unknown_trip(day), TU_unknown_date(day), TU_missing_sequence(day)}

---------------------------------------------------------------------------
(* Store-level specification: the operations of the store, the loader and  *)
(* the applier, each as one step                                           *)

ConcIdle ==
    /\ health = FALSE
    /\ notify = <<>>
    /\ tracker_awaits = FALSE
    /\ static_pc = "idle"
    /\ zip = None
    /\ last_updated = 0
    /\ generation = [dataset |-> None, complete |-> TRUE]
    /\ rt_pc = "idle"
    /\ static_available = FALSE

CalIdle ==
    /\ svc = None
    /\ svc_date = 0

Init ==
    /\ store = EmptyStore
    /\ today = Today0
    /\ loads = 0
    /\ patches = 0
    /\ last = [op |-> "init"]
    /\ ConcIdle
    /\ CalIdle

\* a static tick that finds a newer dataset: reload, then refresh the window
StaticReloadTick ==
    /\ loads < MaxLoads
    /\ \E ds \in Datasets :
          store' = create_trip_instances(
                       remove_old_trip_instances(
                           load_static_gtfs_data(store, ds, today), today),
                       today)
    /\ loads' = loads + 1
    /\ last' = [op |-> "load"]
    /\ UNCHANGED <<today, patches, concVars, calVars>>

\* a static tick that finds no newer dataset: refresh the window only
StaticRefreshTick ==
    /\ store' = create_trip_instances(remove_old_trip_instances(store, today), today)
    /\ last' = [op |-> "refresh",
                pruned |-> {d \in DOMAIN store.trip_instances_by_date :
                               d < today - 1},
                created |-> Window(today) \ DOMAIN store.trip_instances_by_date]
    /\ UNCHANGED <<today, loads, patches, concVars, calVars>>

RemoveOldTripInstances ==
    /\ store' = remove_old_trip_instances(store, today)
    /\ last' = [op |-> "remove_old_trip_instances",
                pruned |-> \E d \in DOMAIN store.trip_instances_by_date :
                               d < today - 1]
    /\ UNCHANGED <<today, loads, patches, concVars, calVars>>

CreateTripInstances ==
    /\ store' = create_trip_instances(store, today)
    /\ last' = [op |-> "create_trip_instances",
                again |-> last.op = "create_trip_instances"]
    /\ UNCHANGED <<today, loads, patches, concVars, calVars>>

AdvanceDay ==
    /\ today < Today0 + MaxDayAdvance
    /\ today' = today + 1
    /\ last' = [op |-> "advance"]
    /\ UNCHANGED <<store, loads, patches, concVars, calVars>>

SetTripInstanceStatus ==
    /\ patches < MaxPatches
    /\ \E trip_id \in RtTripIds, date \in RtDates(today), cancelled \in BOOLEAN :
          /\ store' = set_trip_instance_status(store, trip_id, date, cancelled)
          /\ last' = [op |-> "set_trip_instance_status",
                      found |-> HasTripInstance(store, trip_id, date)]
    /\ patches' = patches + 1
    /\ UNCHANGED <<today, loads, concVars, calVars>>

SetStopTimeInstanceStatus ==
    /\ patches < MaxPatches
    /\ \E trip_id \in RtTripIds, date \in RtDates(today),
          stop_sequence \in RtSequences, skipped \in BOOLEAN :
          /\ store' = set_stop_time_instance_status(store, trip_id, date,
                                                    stop_sequence, skipped)
          /\ last' = [op |-> "set_stop_time_instance_status",
                      found |-> HasTripInstance(store, trip_id, date)]
    /\ patches' = patches + 1
    /\ UNCHANGED <<today, loads, concVars, calVars>>

SetStopTimeActualArrivalTime ==
    /\ patches < MaxPatches
    /\ \E trip_id \in RtTripIds, date \in RtDates(today),
          stop_sequence \in RtSequences, time \in RtTimes(today) :
          /\ store' = set_stop_time_actual_arrival_time(store, trip_id, date,
                                                        stop_sequence, time)
          /\ last' = [op |-> "set_stop_time_actual_arrival_time",
                      found |-> HasTripInstance(store, trip_id, date)]
    /\ patches' = patches + 1
    /\ UNCHANGED <<today, loads, concVars, calVars>>

SetStopTimeActualDepartureTime ==
    /\ patches < MaxPatches
    /\ \E trip_id \in RtTripIds, date \in RtDates(today),
          stop_sequence \in RtSequences, time \in RtTimes(today) :
          /\ store' = set_stop_time_actual_departure_time(store, trip_id, date,
                                                          stop_sequence, time)
          /\ last' = [op |-> "set_stop_time_actual_departure_time",
                      found |-> HasTripInstance(store, trip_id, date)]
    /\ patches' = patches + 1
    /\ UNCHANGED <<today, loads, concVars, calVars>>

ProcessTripUpdate ==
    /\ patches < MaxPatches
    /\ \E tu \in TripUpdates(today) \cup FailingTripUpdates(today),
          deleted \in BOOLEAN :
          /\ store' = process_trip_update(store, tu, deleted)
          /\ last' = [op |-> "process_trip_update", trip_update |-> tu,
                      deleted |-> deleted]
    /\ patches' = patches + 1
    /\ UNCHANGED <<today, loads, concVars, calVars>>

GetStopTimeInstancesBetween ==
    /\ \E stop_id \in QueryStops, w \in QueryWindows(today) :
          /\ last' = [op |-> "get_stop_time_instances_between",
                      stop_id |-> stop_id, start_time |-> w[1],
                      end_time |-> w[2],
                      result |-> get_stop_time_instances_between(
                                     store, stop_id, w[1], w[2])]
          /\ store' = StoreAfterQuery(store, stop_id)
    /\ UNCHANGED <<today, loads, patches, concVars, calVars>>

Next ==
    \/ StaticReloadTick
    \/ StaticRefreshTick
    \/ RemoveOldTripInstances
    \/ CreateTripInstances
    \/ AdvanceDay
    \/ GetStopTimeInstancesBetween

Spec == Init /\ [][Next]_vars

---------------------------------------------------------------------------
(* Realtime specification: the setters and the applier acting on a store   *)
(* that a static reload tick has populated                                 *)

InitRealtime ==
    /\ \E ds \in Datasets :
          store = load_static_gtfs_data(EmptyStore, ds, Today0)
    /\ today = Today0
    /\ loads = 1
    /\ patches = 0
    /\ last = [op |-> "load"]
    /\ ConcIdle
    /\ CalIdle

NextRealtime ==
    \/ SetTripInstanceStatus
    \/ SetStopTimeInstanceStatus
    \/ SetStopTimeActualArrivalTime
    \/ SetStopTimeActualDepartureTime
    \/ ProcessTripUpdate
    \/ GetStopTimeInstancesBetween

SpecRealtime == InitRealtime /\ [][NextRealtime]_vars

---------------------------------------------------------------------------
(* Properties of the store, checked under Spec and SpecRealtime *)

QueryDone == last.op = "get_stop_time_instances_between"

RECURSIVE AncestorsOf(_, _)
AncestorsOf(s, stop_id) ==
    IF ~HasId(s.stops, stop_id) THEN {}
    ELSE LET parent == GetById(s.stops, stop_id).parent_station_id
         IN IF parent = None THEN {} ELSE {parent} \cup AncestorsOf(s, parent)

\* the stop and its descendants in the loaded stop table
SubtreeOf(s, stop_id) ==
    {stop_id} \cup {s.stops[i].id : i \in {j \in DOMAIN s.stops :
                                            stop_id \in AncestorsOf(s, s.stops[j].id)}}

\* the instances registered in the instance list of one of the stops
RegisteredUnder(s, stop_ids) ==
    UNION {{Deref(s, ref) : ref \in Range(s.stop_time_instances_by_stop[x])} :
              x \in stop_ids \cap DOMAIN s.stop_time_instances_by_stop}

\* the departure the query is specified to use: the override when set
DepartureOf(inst) ==
    IF inst.actual_departure_time = NoTime
    THEN inst.date * 24 - 10 + inst.departure_time
    ELSE inst.actual_departure_time

SortedByDeparture(result) ==
    \A i, j \in DOMAIN result :
        i < j => DepartureOf(result[i]) <= DepartureOf(result[j])

\* C1: the query on a parent stop returns exactly the in-range instances
\* registered under the parent and its descendants, each once, sorted by
\* actual departure, after any sequence of loads.
C1_RollupExactlyOnce ==
    QueryDone =>
        LET expected == {inst \in RegisteredUnder(store, SubtreeOf(store, Lower(last.stop_id))) :
                            /\ last.start_time <= DepartureOf(inst)
                            /\ DepartureOf(inst) < last.end_time}
        IN /\ Range(last.result) = expected
           /\ Len(last.result) = Cardinality(expected)
           /\ SortedByDeparture(last.result)

SetterOps == {"set_trip_instance_status", "set_stop_time_instance_status",
              "set_stop_time_actual_arrival_time",
              "set_stop_time_actual_departure_time"}

\* C4: a realtime setter called for a (trip, date) without instance leaves the
\* whole store, key sets included, as it was.
C4_MissLeavesStoreIdentical ==
    [][(last'.op \in SetterOps /\ ~last'.found) => store' = store]_vars

\* the realtime state of one trip instance and of its stop-time instances
InstanceState(s, trip_id, date) ==
    [trip |-> s.trip_instances_by_date[date][Lower(trip_id)],
     stop_times |-> InstsOf(s.stop_time_instances_by_date[date], Lower(trip_id))]

\* C5: a cancelling trip update and a stop-skipping trip update for the same
\* existing (trip, date) leave the same instance state in either order.
C5_TripUpdatesOrderTolerant ==
    HasTripInstance(store, "T1", today) =>
        InstanceState(process_trip_update(
                          process_trip_update(store, TU_cancel(today), FALSE),
                          TU_skip(today), FALSE), "T1", today)
        = InstanceState(process_trip_update(
                            process_trip_update(store, TU_skip(today), FALSE),
                            TU_cancel(today), FALSE), "T1", today)

\* C6: on an existing instance, cancelling the trip and then skipping a stop
\* gives the same store as skipping the stop and then cancelling the trip.
C6_SettersCommute ==
    \A trip_id \in RtTripIds, date \in RtDates(today), seq \in RtSequences :
        HasTripInstance(store, trip_id, date) =>
            set_stop_time_instance_status(
                set_trip_instance_status(store, trip_id, date, TRUE),
                trip_id, date, seq, TRUE)
            = set_trip_instance_status(
                  set_stop_time_instance_status(store, trip_id, date, seq, TRUE),
                  trip_id, date, TRUE)

\* both setters have acted on the same existing instance
C6_Witness ==
    /\ patches = 2
    /\ HasTripInstance(store, "T1", today)
    /\ store.trip_instances_by_date[today]["t1"].cancelled
    /\ \E inst \in Range(InstsOf(store.stop_time_instances_by_date[today], "t1")) :
          inst.skipped

\* C7: a second create_trip_instances() on the same day changes neither the
\* instance maps nor any stop's instance list.
C7_CreateTwiceChangesNothing ==
    [][(last'.op = "create_trip_instances" /\ last'.again) =>
          /\ store'.trip_instances_by_date = store.trip_instances_by_date
          /\ store'.stop_time_instances_by_date = store.stop_time_instances_by_date
          /\ store'.stop_time_instances_by_stop = store.stop_time_instances_by_stop]_vars

\* the second call has run on a window with a date without running trip
C7_Witness ==
    /\ last.op = "create_trip_instances"
    /\ last.again
    /\ \E d \in {today - 1, today, today + 1} :
          /\ d \in DOMAIN store.trip_instances_by_date
          /\ DOMAIN store.trip_instances_by_date[d] = {}
    /\ \E x \in DOMAIN store.stop_time_instances_by_stop :
          store.stop_time_instances_by_stop[x] # <<>>

\* C8: remove_old_trip_instances() leaves nothing dated before yesterday in the
\* date maps and the stop lists, and keeps everything dated later.
C8_RollingWindow ==
    [][last'.op = "remove_old_trip_instances" =>
          /\ \A d \in DOMAIN store'.trip_instances_by_date : d >= today - 1
          /\ \A d \in DOMAIN store'.stop_time_instances_by_date : d >= today - 1
          /\ \A x \in DOMAIN store'.stop_time_instances_by_stop :
                \A ref \in Range(store'.stop_time_instances_by_stop[x]) :
                    ref.date >= today - 1
          /\ \A d \in DOMAIN store.trip_instances_by_date :
                d >= today - 1 =>
                    /\ d \in DOMAIN store'.trip_instances_by_date
                    /\ store'.trip_instances_by_date[d]
                           = store.trip_instances_by_date[d]
          /\ \A d \in DOMAIN store.stop_time_instances_by_date :
                d >= today - 1 =>
                    /\ d \in DOMAIN store'.stop_time_instances_by_date
                    /\ store'.stop_time_instances_by_date[d]
                           = store.stop_time_instances_by_date[d]
          /\ \A x \in DOMAIN store.stop_time_instances_by_stop :
                /\ x \in DOMAIN store'.stop_time_instances_by_stop
                /\ \A ref \in Range(store.stop_time_instances_by_stop[x]) :
                      ref.date >= today - 1 =>
                          ref \in Range(store'.stop_time_instances_by_stop[x])]_vars

\* a prune that removed a date and kept a later one with its instances
C8_Witness ==
    /\ last.op = "remove_old_trip_instances"
    /\ last.pruned
    /\ \E x \in DOMAIN store.stop_time_instances_by_stop :
          store.stop_time_instances_by_stop[x] # <<>>

\* C10: the query returns the instances of the stop and its descendants whose
\* actual departure (the override when set, else the scheduled one) lies in
\* [start, end), in ascending order of that departure.
C10_ActualDepartureWindow ==
    QueryDone =>
        /\ \A inst \in Range(last.result) :
              /\ last.start_time <= DepartureOf(inst)
              /\ DepartureOf(inst) < last.end_time
        /\ \A inst \in RegisteredUnder(store, SubtreeOf(store, Lower(last.stop_id))) :
              (last.start_time <= DepartureOf(inst) /\ DepartureOf(inst) < last.end_time)
                  => inst \in Range(last.result)
        /\ SortedByDeparture(last.result)

\* a departure override has moved an instance behind one scheduled later
C10_Witness ==
    /\ QueryDone
    /\ patches > 0
    /\ \E i, j \in DOMAIN last.result :
          /\ i < j
          /\ last.result[j].actual_departure_time # NoTime
          /\ last.result[i].departure_time > last.result[j].departure_time

---------------------------------------------------------------------------
(* Calendar specification: Service.runs_on evaluated on a service and a    *)
(* date drawn from the cases of the calendar                               *)

CalDays == {{}, {0, 2}, {5, 6}, 0..6}
CalRanges == {<<Today0, Today0 + 30>>, <<Today0 + 2, Today0 + 2>>,
              <<Today0 + 3, Today0 + 1>>}
CalExceptions ==
    {EmptyMap,
     [d \in {Today0 + 2} |-> FALSE],
     [d \in {Today0 + 35} |-> TRUE],
     [d \in {Today0 - 1, Today0 + 2, Today0 + 5} |-> d # Today0 + 2]}
CalDates == (Today0 - 2 .. Today0 + 6) \cup {Today0 + 30, Today0 + 31, Today0 + 35}

InitCalendar ==
    /\ \E days \in CalDays, r \in CalRanges, exceptions \in CalExceptions :
          svc = [days |-> days, start_date |-> r[1], end_date |-> r[2],
                 exceptions |-> exceptions]
    /\ svc_date \in CalDates
    /\ store = EmptyStore
    /\ today = Today0
    /\ loads = 0
    /\ patches = 0
    /\ last = [op |-> "init"]
    /\ ConcIdle

RunsOn ==
    /\ last.op = "init"
    /\ last' = [op |-> "runs_on", result |-> runs_on(svc, svc_date)]
    /\ UNCHANGED <<store, today, loads, patches, concVars, calVars>>

NextCalendar == RunsOn

SpecCalendar == InitCalendar /\ [][NextCalendar]_vars

\* the day of the week counted from a known Monday (2024-01-01)
DayOfWeek(d) == (d - Today0 + 7 * 7) % 7

\* C9: runs_on(d) is the exception value when d is a key of the exception
\* map, and otherwise start_date <= d <= end_date and weekday(d) in days.
C9_RunsOn ==
    last.op = "runs_on" =>
        /\ svc_date \in DOMAIN svc.exceptions =>
              last.result = svc.exceptions[svc_date]
        /\ svc_date \notin DOMAIN svc.exceptions =>
              last.result = (/\ svc.start_date <= svc_date
                             /\ svc_date <= svc.end_date
                             /\ DayOfWeek(svc_date) \in svc.days)

\* an exception has removed a date that lies inside the range on a running
\* weekday
C9_Witness ==
    /\ last.op = "runs_on"
    /\ svc_date \in DOMAIN svc.exceptions
    /\ ~svc.exceptions[svc_date]
    /\ svc.start_date <= svc_date
    /\ svc_date <= svc.end_date
    /\ DayOfWeek(svc_date) \in svc.days
    /\ ~last.result

\* an exception has added a date that lies outside the range
C9_WitnessAdded ==
    /\ last.op = "runs_on"
    /\ svc_date \in DOMAIN svc.exceptions
    /\ svc.exceptions[svc_date]
    /\ svc_date > svc.end_date
    /\ last.result

---------------------------------------------------------------------------
(* Concurrent specification: the static reload task, the realtime poll     *)
(* task, the health publications between them and the provider's query     *)
(* handlers, interleaved at the awaits of the code.  The store methods are *)
(* synchronous, so each step runs from one await to the next.              *)

\* the downloads the static task can find, by modification time
Zips ==
    {[last_modified |-> 1,
      dataset |-> [routes |-> RouteRows, services |-> ServiceRows,
                   trips |-> <<TripRowT1, TripRowT2>>,
                   stops |-> <<[stop_id |-> "a", parent_station |-> ""],
                               [stop_id |-> "b", parent_station |-> "a"],
                               [stop_id |-> "c", parent_station |-> "a"]>>,
                   stop_times |-> StopTimeRowsT1 \o StopTimeRowsT2]],
     [last_modified |-> 2,
      dataset |-> [routes |-> RouteRows, services |-> ServiceRows,
                   trips |-> <<TripRowT1>>,
                   stops |-> <<[stop_id |-> "a", parent_station |-> ""],
                               [stop_id |-> "b", parent_station |-> "a"],
                               [stop_id |-> "c", parent_station |-> "b"]>>,
                   stop_times |-> StopTimeRowsT1]]}

\* the feed messages the realtime task can fetch; the optional trip_update of
\* an entity is a sequence of at most one element
FeedMessages(day) ==
    {<<[trip_update |-> <<TU_cancel(day)>>, is_deleted |-> FALSE]>>,
     <<[trip_update |-> <<>>, is_deleted |-> FALSE],
       [trip_update |-> <<TU_skip(day)>>, is_deleted |-> FALSE],
       [trip_update |-> <<TU_delay(day)>>, is_deleted |-> FALSE]>>,
     <<[trip_update |-> <<TU_unknown_trip(day)>>, is_deleted |-> FALSE],
       [trip_update |-> <<TU_delay(day)>>, is_deleted |-> TRUE],
       [trip_update |-> <<TU_unknown_date(day)>>, is_deleted |-> FALSE],
       [trip_update |-> <<TU_skip(day)>>, is_deleted |-> FALSE],
       [trip_update |-> <<TU_cancel(day)>>, is_deleted |-> FALSE]>>}

ProviderStops == {"a", "zz"}

\* HealthTracker.set_health: the value is set, then the subscriber is
\* called.  A tracker that awaits the subscriber runs it at once when the
\* realtime lock is free; otherwise the call is pending.
handle_health_update(available, healthy) ==
    IF ~healthy THEN FALSE
    ELSE IF ~available THEN TRUE
    ELSE available

SetHealth(healthy) ==
    /\ health' = healthy
    /\ IF tracker_awaits /\ rt_pc = "idle" /\ notify = <<>>
       THEN /\ static_available' = handle_health_update(static_available, healthy)
            /\ notify' = notify
       ELSE /\ notify' = Append(notify, healthy)
            /\ static_available' = static_available

\* set_health has returned to the static task
SetHealthReturned == tracker_awaits => notify = <<>>

InitConc ==
    /\ store = EmptyStore
    /\ today = Today0
    /\ loads = 0
    /\ patches = 0
    /\ last = [op |-> "init"]
    /\ health = FALSE
    /\ notify = <<>>
    /\ tracker_awaits \in BOOLEAN
    /\ static_pc = "idle"
    /\ zip = None
    /\ last_updated = 0
    /\ generation = [dataset |-> None, complete |-> TRUE]
    /\ rt_pc = "idle"
    /\ static_available = FALSE
    /\ CalIdle

\* _update_static_gtfs_data: the tick takes the lock and starts the download
StaticTick ==
    /\ static_pc = "idle"
    /\ loads < MaxTicks
    /\ static_pc' = "download"
    /\ loads' = loads + 1
    /\ UNCHANGED <<store, today, patches, last, health, notify, tracker_awaits,
                   zip, last_updated, generation, rt_pc, static_available,
                   calVars>>

\* faulty variant: the store is cleared before the download has ended
StaticDownloadFailsAfterClear ==
    /\ static_pc = "download"
    /\ static_pc' = "idle"
    /\ store' = clear(store)
    /\ last' = [op |-> "static_download_failed", tick |-> loads]
    /\ UNCHANGED <<today, loads, patches, health, notify,
                   tracker_awaits, zip, last_updated, generation, rt_pc,
                   static_available, calVars>>

\* the download fails with a ClientError: the loop retries at the next tick
StaticDownloadFails ==
    /\ static_pc = "download"
    /\ static_pc' = "idle"
    /\ last' = [op |-> "static_download_failed", tick |-> loads]
    /\ UNCHANGED <<store, today, loads, patches, health, notify,
                   tracker_awaits, zip, last_updated, generation, rt_pc,
                   static_available, calVars>>

\* faulty variant: the reload starts without publishing 'unavailable'
StaticDownloadedNewerSilent ==
    /\ static_pc = "download"
    /\ \E z \in Zips :
          /\ z.last_modified > last_updated
          /\ zip' = z
    /\ static_pc' = "set_unhealthy"
    /\ UNCHANGED <<store, today, loads, patches, last, health, notify,
                   tracker_awaits, last_updated, generation, rt_pc,
                   static_available, calVars>>

\* the download returns a newer dataset: 'unavailable' is published
StaticDownloadedNewer ==
    /\ static_pc = "download"
    /\ \E z \in Zips :
          /\ z.last_modified > last_updated
          /\ zip' = z
    /\ SetHealth(FALSE)
    /\ static_pc' = "set_unhealthy"
    /\ UNCHANGED <<store, today, loads, patches, last, tracker_awaits,
                   last_updated, generation, rt_pc, calVars>>

\* the download returns no newer dataset: the window is refreshed
StaticDownloadedSame ==
    /\ static_pc = "download"
    /\ \E z \in Zips :
          /\ ~(z.last_modified > last_updated)
          /\ last' = [op |-> "static_refresh", tick |-> loads,
                      last_modified |-> z.last_modified]
    /\ store' = create_trip_instances(remove_old_trip_instances(store, today), today)
    /\ static_pc' = "idle"
    /\ UNCHANGED <<today, loads, patches, health, notify, tracker_awaits,
                   zip, last_updated, generation, rt_pc, static_available,
                   calVars>>

\* _load_static_gtfs_data: clear(), then the routes file is read
StaticClear ==
    /\ static_pc = "set_unhealthy"
    /\ SetHealthReturned
    /\ store' = clear(store)
    /\ generation' = [dataset |-> zip.last_modified, complete |-> FALSE]
    /\ static_pc' = "routes"
    /\ UNCHANGED <<today, loads, patches, last, health, notify, tracker_awaits,
                   zip, last_updated, rt_pc, static_available, calVars>>

LoadFile(pc, kind, rows, next_pc) ==
    /\ static_pc = pc
    /\ store' = AddRows(store, kind, rows)
    /\ static_pc' = next_pc
    /\ UNCHANGED <<today, loads, patches, last, health, notify, tracker_awaits,
                   zip, last_updated, generation, rt_pc, static_available,
                   calVars>>

\* reading a file of the zip raises (a missing column, a value that does not
\* parse): the exception leaves _update_static_gtfs_data and, not being a
\* ClientError, ends the loop of the task
StaticLoadFails ==
    /\ static_pc \in {"routes", "services", "trips", "stops", "stop_times"}
    /\ static_pc' = "failed"
    /\ UNCHANGED <<store, today, loads, patches, last, health, notify,
                   tracker_awaits, zip, last_updated, generation, rt_pc,
                   static_available, calVars>>

\* the routes are added; the calendar exceptions are read into a local map
LoadRoutes == LoadFile("routes", "route", zip.dataset.routes, "services")
LoadServices == LoadFile("services", "service", zip.dataset.services, "trips")
LoadTrips == LoadFile("trips", "trip", zip.dataset.trips, "stops")
LoadStops == LoadFile("stops", "stop", zip.dataset.stops, "stop_times")

\* faulty variant: the instances are created before the stop times are added
LoadStopTimesAfterCreate ==
    /\ static_pc = "stop_times"
    /\ store' = AddRows(create_trip_instances(store, today), "stop_time",
                        zip.dataset.stop_times)
    /\ generation' = [generation EXCEPT !.complete = TRUE]
    /\ last_updated' = zip.last_modified
    /\ SetHealth(TRUE)
    /\ static_pc' = "set_healthy"
    /\ UNCHANGED <<today, loads, patches, last, tracker_awaits, zip, rt_pc,
                   calVars>>

\* the stop times are added, the instances are created and 'available' is
\* published
LoadStopTimes ==
    /\ static_pc = "stop_times"
    /\ store' = create_trip_instances(
                    AddRows(store, "stop_time", zip.dataset.stop_times), today)
    /\ generation' = [generation EXCEPT !.complete = TRUE]
    /\ last_updated' = zip.last_modified
    /\ SetHealth(TRUE)
    /\ static_pc' = "set_healthy"
    /\ UNCHANGED <<today, loads, patches, last, tracker_awaits, zip, rt_pc,
                   calVars>>

\* the tick ends with remove_old_trip_instances() and create_trip_instances()
StaticRefresh ==
    /\ static_pc = "set_healthy"
    /\ SetHealthReturned
    /\ store' = create_trip_instances(remove_old_trip_instances(store, today), today)
    /\ static_pc' = "idle"
    /\ zip' = None
    /\ UNCHANGED <<today, loads, patches, last, health, notify, tracker_awaits,
                   last_updated, generation, rt_pc, static_available, calVars>>

\* the subscriber _handle_health_update runs once the realtime lock is free
HandleHealthUpdate ==
    /\ notify # <<>>
    /\ rt_pc = "idle"
    /\ static_available' = handle_health_update(static_available, Head(notify))
    /\ notify' = Tail(notify)
    /\ UNCHANGED <<store, today, loads, patches, last, health, tracker_awaits,
                   static_pc, zip, last_updated, generation, rt_pc, calVars>>

\* _update_gtfs_realtime_data: the tick takes the lock and checks the flag
RealtimeTick ==
    /\ rt_pc = "idle"
    /\ patches < MaxPatches
    /\ patches' = patches + 1
    /\ rt_pc' = IF static_available THEN "fetch" ELSE "idle"
    /\ UNCHANGED <<store, today, loads, last, health, notify, tracker_awaits,
                   static_pc, zip, last_updated, generation, static_available,
                   calVars>>

RealtimeFetchFails ==
    /\ rt_pc = "fetch"
    /\ rt_pc' = "idle"
    /\ UNCHANGED <<store, today, loads, patches, last, health, notify,
                   tracker_awaits, static_pc, zip, last_updated, generation,
                   static_available, calVars>>

\* faulty variant: the first entity that raises ends the processing of the
\* message
RECURSIVE ApplyFeedUntilError(_, _)
ApplyFeedUntilError(s, entities) ==
    IF entities = <<>> THEN s
    ELSE IF Head(entities).trip_update = <<>>
    THEN ApplyFeedUntilError(s, Tail(entities))
    ELSE LET s1 == process_trip_update(s, Head(entities).trip_update[1],
                                       Head(entities).is_deleted)
         IN IF TripUpdateRaises(s, Head(entities).trip_update[1],
                                Head(entities).is_deleted)
            THEN s1
            ELSE ApplyFeedUntilError(s1, Tail(entities))

\* for entity in feed_message.entity: an exception ends that entity only
RECURSIVE ApplyFeed(_, _)
ApplyFeed(s, entities) ==
    IF entities = <<>> THEN s
    ELSE ApplyFeed(IF Head(entities).trip_update = <<>> THEN s
                   ELSE process_trip_update(s, Head(entities).trip_update[1],
                                            Head(entities).is_deleted),
                   Tail(entities))

\* the response arrives and its entities are applied to the store
RealtimeFetched ==
    /\ rt_pc = "fetch"
    /\ \E feed_message \in FeedMessages(today) :
          /\ store' = ApplyFeed(store, feed_message)
          /\ last' = [op |-> "realtime_apply", available |-> health,
                      complete |-> generation.complete, tick |-> patches,
                      feed_message |-> feed_message]
    /\ rt_pc' = "idle"
    /\ UNCHANGED <<today, loads, patches, health, notify, tracker_awaits,
                   static_pc, zip, last_updated, generation, static_available,
                   calVars>>

\* the defaultdict accesses of get_stops_by_route_type over every stop
StoreAfterSearch(s) ==
    LET walked == UNION {Range(walk_child_stop_ids(s.children_stops, s.stops[i].id)) :
                            i \in DOMAIN s.stops}
        TouchSet(m, default) ==
            [x \in DOMAIN m \cup walked |-> IF x \in DOMAIN m THEN m[x] ELSE default]
    IN [s EXCEPT !.children_stops = TouchSet(@, <<>>),
                 !.route_types_by_stop = TouchSet(@, {})]

\* Configuration.lookahead_window, in hours, and Configuration.max_results:
\* a defaultdict merged with the entries of the route types that differ
lookahead_window(route_type) ==
    CASE route_type = "RAIL" -> 4
      [] route_type = "TRAM" -> 2
      [] OTHER -> 8

max_results(route_type) ==
    CASE route_type = "RAIL" -> 6
      [] route_type = "TRAM" -> 2
      [] OTHER -> 10

\* itertools.islice(iterable, n)
islice(seq, n) == IF Len(seq) <= n THEN seq ELSE SubSeq(seq, 1, n)

\* StopTimeInstance.trip: the trip instance of the same trip id and date
TripOf(s, inst) == s.trip_instances_by_date[inst.date][inst.trip_id]

\* TripInstance.route
RouteOf(s, trip) == s.routes[trip.route_id]

\* faulty variant: the filter lets the stops of a cancelled trip through
IsNextServiceOfAnyTrip(s, stop_time, route_type) ==
    /\ ~stop_time.skipped
    /\ RouteOf(s, TripOf(s, stop_time)).type = route_type
    /\ ~stop_time.terminates

\* the filter of _handle_get_next_services_request
IsNextService(s, stop_time, route_type) ==
    /\ ~stop_time.skipped
    /\ ~TripOf(s, stop_time).cancelled
    /\ RouteOf(s, TripOf(s, stop_time)).type = route_type
    /\ ~stop_time.terminates

\* the filter of either list of _handle_get_next_trains_request
IsNextTrain(s, stop_time, direction) ==
    /\ ~stop_time.skipped
    /\ ~TripOf(s, stop_time).cancelled
    /\ RouteOf(s, TripOf(s, stop_time)).type = "RAIL"
    /\ TripOf(s, stop_time).direction = direction
    /\ ~stop_time.terminates

\* route_type in _route_types_by_stop[stop_id.lower()]
stop_has_route_with_type(s, stop_id, route_type) ==
    /\ Lower(stop_id) \in DOMAIN s.route_types_by_stop
    /\ route_type \in s.route_types_by_stop[Lower(stop_id)]

\* the list comprehension over the stops and the walk of each: a stop is
\* listed once for every walked id that has the route type
RECURSIVE StopsByRouteType(_, _, _)
StopsByRouteType(s, route_type, i) ==
    IF i > Len(s.stops) THEN <<>>
    ELSE LET walked == walk_child_stop_ids(s.children_stops, s.stops[i].id)
             hits == SelectSeq(walked,
                               LAMBDA stop_id :
                                   stop_has_route_with_type(s, stop_id, route_type))
         IN [k \in 1..Len(hits) |-> s.stops[i]]
                \o StopsByRouteType(s, route_type, i + 1)

get_stops_by_route_type(s, route_type) == StopsByRouteType(s, route_type, 1)

\* the keys of a dict built from the sequence: each element once, in the
\* order of its first occurrence
RECURSIVE Keys(_)
Keys(seq) ==
    IF seq = <<>> THEN <<>>
    ELSE LET front == Keys(SubSeq(seq, 1, Len(seq) - 1))
         IN IF seq[Len(seq)] \in Range(front) THEN front
            ELSE Append(front, seq[Len(seq)])

\* the score of the fuzzy matcher: the rows name a stop by its id, and a
\* name that equals the processed query scores highest
WRatio(query, stop) == IF Lower(query) = stop.id THEN 100 ELSE 0

\* process.extract: the choices in descending order of their score, the
\* first limit of them
extract(query, choices, limit) ==
    islice(SelectSeq(choices, LAMBDA stop : WRatio(query, stop) = 100)
           \o SelectSeq(choices, LAMBDA stop : WRatio(query, stop) # 100),
           limit)

\* the outcome of a request handler: refused (RuntimeError), failed in
\* get_stop (ValueError), or answered with a result
handle_search_stops_request(s, available, request) ==
    IF ~available THEN [status |-> "unavailable", stops |-> <<>>]
    ELSE LET stops == SelectSeq(Keys(get_stops_by_route_type(s, request.route_type)),
                                LAMBDA stop : \/ stop.parent_station_id = None
                                              \/ ~request.parent_only)
             found == get_stop(s, request.query)
             results ==
                 (IF /\ found # <<>>
                     /\ stop_has_route_with_type(s, found[1].id, request.route_type)
                  THEN found ELSE <<>>)
                 \o extract(request.query, stops, request.limit)
         IN [status |-> "ok", stops |-> islice(results, request.limit)]

\* faulty variant: the handler does not consult the health tracker
handle_get_next_services_request_ungated(s, available, request) ==
    IF ~HasId(s.stops, Lower(request.stop_id))
    THEN [status |-> "not_found", services |-> <<>>]
    ELSE [status |-> "ok", services |-> <<>>]

handle_get_next_services_request(s, available, request) ==
    IF ~available THEN [status |-> "unavailable", services |-> <<>>]
    ELSE IF ~HasId(s.stops, Lower(request.stop_id))
    THEN [status |-> "not_found", services |-> <<>>]
    ELSE LET lookahead == request.time + lookahead_window(request.route_type)
             between == get_stop_time_instances_between(
                            s, request.stop_id, request.time, lookahead)
         IN [status |-> "ok",
             services |->
                 islice(SelectSeq(between,
                                  LAMBDA st : IsNextService(s, st, request.route_type)),
                        max_results(request.route_type))]

\* faulty variant: an unknown stop is answered with two empty lists
handle_get_next_trains_request_lenient(s, available, request, now) ==
    IF ~available
    THEN [status |-> "unavailable", down_trains |-> <<>>, up_trains |-> <<>>]
    ELSE [status |-> "ok", down_trains |-> <<>>, up_trains |-> <<>>]

handle_get_next_trains_request(s, available, request, now) ==
    IF ~available
    THEN [status |-> "unavailable", down_trains |-> <<>>, up_trains |-> <<>>]
    ELSE IF ~HasId(s.stops, Lower(request.stop_id))
    THEN [status |-> "not_found", down_trains |-> <<>>, up_trains |-> <<>>]
    ELSE LET lookahead == now + lookahead_window("RAIL")
             between == get_stop_time_instances_between(
                            s, request.stop_id, request.time, lookahead)
         IN [status |-> "ok",
             down_trains |->
                 islice(SelectSeq(between, LAMBDA st : IsNextTrain(s, st, "DOWNWARD")),
                        max_results("RAIL")),
             up_trains |->
                 islice(SelectSeq(between, LAMBDA st : IsNextTrain(s, st, "UPWARD")),
                        max_results("RAIL"))]

\* the requests of the concurrent specification ask for the coming rail
\* services at the wall clock
RequestAt(stop_id, day) ==
    [stop_id |-> stop_id, time |-> Localize(day, 8), route_type |-> "RAIL",
     max_results |-> max_results("RAIL")]

\* the search of the timetable commands' autocompletion for rail stations
SearchFor(query) ==
    [query |-> query, route_type |-> "RAIL", parent_only |-> TRUE,
     limit |-> MAX_SEARCH_RESULTS]

SearchStops ==
    /\ \E query \in ProviderStops :
          LET status == handle_search_stops_request(
                            store, health, SearchFor(query)).status
          IN /\ last' = [op |-> "search_stops", status |-> status,
                         complete |-> generation.complete]
             /\ store' = IF status = "ok" THEN StoreAfterSearch(store) ELSE store
    /\ UNCHANGED <<today, loads, patches, concVars, calVars>>

GetNextServices ==
    /\ \E stop_id \in ProviderStops :
          LET status == handle_get_next_services_request(
                            store, health, RequestAt(stop_id, today)).status
          IN /\ last' = [op |-> "get_next_services", status |-> status,
                         complete |-> generation.complete]
             /\ store' = IF status = "ok" THEN StoreAfterQuery(store, stop_id)
                         ELSE store
    /\ UNCHANGED <<today, loads, patches, concVars, calVars>>

GetNextTrains ==
    /\ \E stop_id \in ProviderStops :
          LET status == handle_get_next_trains_request(
                            store, health, RequestAt(stop_id, today),
                            Localize(today, 8)).status
          IN /\ last' = [op |-> "get_next_trains", status |-> status,
                         complete |-> generation.complete]
             /\ store' = IF status = "ok" THEN StoreAfterQuery(store, stop_id)
                         ELSE store
    /\ UNCHANGED <<today, loads, patches, concVars, calVars>>

NextConc ==
    \/ StaticTick
    \/ StaticDownloadFails
    \/ StaticDownloadedNewer
    \/ StaticDownloadedSame
    \/ StaticClear
    \/ StaticLoadFails
    \/ LoadRoutes
    \/ LoadServices
    \/ LoadTrips
    \/ LoadStops
    \/ LoadStopTimes
    \/ StaticRefresh
    \/ HandleHealthUpdate
    \/ RealtimeTick
    \/ RealtimeFetchFails
    \/ RealtimeFetched
    \/ SearchStops
    \/ GetNextServices
    \/ GetNextTrains

SpecConc == InitConc /\ [][NextConc]_vars

ProviderOps == {"search_stops", "get_next_services", "get_next_trains"}

\* C2: no query reads the store between the clear() of a reload and the end
\* of that reload's create_trip_instances(): a query that is not refused
\* reads a complete generation.
C2_QueriesSeeCompleteGeneration ==
    (last.op \in ProviderOps /\ last.status # "unavailable") => last.complete

\* a query issued while the reload was filling the store has been refused
C2_Witness ==
    /\ last.op \in ProviderOps
    /\ last.status = "unavailable"
    /\ ~last.complete
    /\ static_pc \in {"routes", "services", "trips", "stops", "stop_times"}

\* C3: the realtime applier calls no store setter while the static
\* availability is 'unavailable'.
C3_NoPatchWhileUnavailable ==
    last.op = "realtime_apply" => last.available

---------------------------------------------------------------------------
(* Provider specification: the three request handlers answering on a store *)
(* that one or two static loads have populated and that the realtime       *)
(* applier patches                                                         *)

ProviderRouteRows == RouteRows \o <<[route_id |-> "r3", route_type |-> "TRAM"]>>

\* the buses that call at e, an hour apart
BusTripIds == <<"u1", "u2", "u3", "u4", "u5", "u6", "u7", "u8">>

\* a rail trip of three stops in each direction, three trams calling at b
ProviderTripRows ==
    <<TripRowT1,
      [trip_id |-> "t3", route_id |-> "r1", service_id |-> "sv1",
       direction_id |-> "1"]>>
    \o [i \in 1..3 |->
          [trip_id |-> <<"t4", "t5", "t6">>[i], route_id |-> "r3",
           service_id |-> "sv1", direction_id |-> "0"]]
    \o [i \in DOMAIN BusTripIds |->
          [trip_id |-> BusTripIds[i], route_id |-> "r2",
           service_id |-> "sv1", direction_id |-> "0"]]

ProviderStopTimeRows ==
    <<[trip_id |-> "t1", stop_sequence |-> 1, stop_id |-> "b",
       arrival_time |-> hhmmss(8, 0, 0),
       departure_time |-> hhmmss(8, 0, 0), pickup_type |-> "0"],
      [trip_id |-> "t1", stop_sequence |-> 2, stop_id |-> "c",
       arrival_time |-> hhmmss(9, 0, 0),
       departure_time |-> hhmmss(9, 0, 0), pickup_type |-> "0"],
      [trip_id |-> "t1", stop_sequence |-> 3, stop_id |-> "d",
       arrival_time |-> hhmmss(10, 0, 0),
       departure_time |-> hhmmss(10, 0, 0), pickup_type |-> "1"],
      [trip_id |-> "t3", stop_sequence |-> 1, stop_id |-> "c",
       arrival_time |-> hhmmss(11, 0, 0),
       departure_time |-> hhmmss(11, 0, 0), pickup_type |-> "0"],
      [trip_id |-> "t3", stop_sequence |-> 2, stop_id |-> "b",
       arrival_time |-> hhmmss(13, 0, 0),
       departure_time |-> hhmmss(13, 0, 0), pickup_type |-> "0"],
      [trip_id |-> "t3", stop_sequence |-> 3, stop_id |-> "d",
       arrival_time |-> hhmmss(14, 0, 0),
       departure_time |-> hhmmss(14, 0, 0), pickup_type |-> "1"],
      [trip_id |-> "t4", stop_sequence |-> 1, stop_id |-> "b",
       arrival_time |-> hhmmss(8, 0, 0),
       departure_time |-> hhmmss(8, 0, 0), pickup_type |-> "0"],
      [trip_id |-> "t5", stop_sequence |-> 1, stop_id |-> "b",
       arrival_time |-> hhmmss(8, 0, 0),
       departure_time |-> hhmmss(8, 0, 0), pickup_type |-> "0"],
      [trip_id |-> "t6", stop_sequence |-> 1, stop_id |-> "b",
       arrival_time |-> hhmmss(9, 0, 0),
       departure_time |-> hhmmss(9, 0, 0), pickup_type |-> "0"]>>
    \o [i \in DOMAIN BusTripIds |->
          [trip_id |-> BusTripIds[i], stop_sequence |-> 1, stop_id |-> "e",
           arrival_time |-> hhmmss(7 + i, 0, 0), departure_time |-> hhmmss(7 + i, 0, 0),
           pickup_type |-> "0"]]

\* the platforms b, c, d under the station a, or stops without a parent; the
\* bus stop e
ProviderStopTables ==
    { [i \in 1..5 |->
         [stop_id |-> <<"a", "b", "c", "d", "e">>[i],
          parent_station |-> IF i \in {1, 5} THEN "" ELSE parent]] :
      parent \in {"a", ""} }

ProviderDatasets ==
    { [routes |-> ProviderRouteRows, services |-> <<ServiceRows[1]>>,
       trips |-> ProviderTripRows, stops |-> st,
       stop_times |-> ProviderStopTimeRows] : st \in ProviderStopTables }

PU_cancel(day) ==
    [trip_id |-> "T1", start_date |-> day, schedule_relationship |-> 3,
     stop_time_update |-> <<>>]
\* sequence 2 is skipped and sequence 3 arrives an hour late
PU_stops(day) ==
    [trip_id |-> "T1", start_date |-> day, schedule_relationship |-> 0,
     stop_time_update |->
        <<[stop_sequence |-> 2, stop_id |-> "c", schedule_relationship |-> 1,
           arrival |-> NoTime, departure |-> NoTime],
          [stop_sequence |-> 3, stop_id |-> "d", schedule_relationship |-> 0,
           arrival |-> Localize(day, 11), departure |-> NoTime]>>]
ProviderTripUpdates(day) == {PU_cancel(day), PU_stops(day)}

RequestStops == {"a", "B", "zz"}

\* the least max_results a timetable command accepts for the route type
MaxResultsAsked(route_type) ==
    CASE route_type = "RAIL" -> 6
      [] route_type = "BUS" -> 7
      [] route_type = "TRAM" -> 2

\* the requests for rail and tram at the station, a platform and an unknown
\* stop, and for the buses at e, at 08:00 local time
ServicesRequests(day) ==
    { [stop_id |-> x[1], time |-> Localize(day, 8), route_type |-> x[2],
       max_results |-> MaxResultsAsked(x[2])] :
      x \in (RequestStops \X {"RAIL", "TRAM"}) \cup {<<"e", "BUS">>} }
TrainsRequests(day) ==
    [stop_id : RequestStops, time : {Localize(day, 8)},
     max_results : {MaxResultsAsked("RAIL")}]
\* the searches: for rail stations by the id of a station, of a platform and
\* an unknown id, as the commands search; for rail stops of any level, cut
\* at two; for bus stops
SearchRequests ==
    {SearchFor(query) : query \in RequestStops}
    \cup [query : {"a", "B"}, route_type : {"RAIL"}, parent_only : {FALSE},
          limit : {2}]
    \cup {[query |-> "a", route_type |-> "BUS", parent_only |-> FALSE,
           limit |-> MAX_SEARCH_RESULTS]}

\* datetime.now(utc) when the request is handled: at the requested time or
\* three hours after it
WallClocks(request) == {request.time, request.time + 3}

\* the store after the first load; the health is that of a loaded store:
\* True, or False from the start of the next reload until its clear()
InitProvider ==
    /\ \E ds \in ProviderDatasets :
          store = load_static_gtfs_data(EmptyStore, ds, Today0)
    /\ loads = 1
    /\ today = Today0
    /\ patches = 0
    /\ last = [op |-> "load"]
    /\ health \in BOOLEAN
    /\ notify = <<>>
    /\ tracker_awaits = FALSE
    /\ static_pc = "idle"
    /\ zip = None
    /\ last_updated = 0
    /\ generation = [dataset |-> None, complete |-> TRUE]
    /\ rt_pc = "idle"
    /\ static_available = health
    /\ CalIdle

\* a static tick that finds a newer dataset, from set_health(False) to the
\* refresh of the window after set_health(True)
ProviderReloadTick ==
    /\ loads < MaxLoads
    /\ \E ds \in ProviderDatasets :
          store' = create_trip_instances(
                       remove_old_trip_instances(
                           load_static_gtfs_data(store, ds, today), today),
                       today)
    /\ loads' = loads + 1
    /\ last' = [op |-> "load"]
    /\ health' = TRUE
    /\ static_available' = TRUE
    /\ UNCHANGED <<today, patches, notify, tracker_awaits, static_pc, zip,
                   last_updated, generation, rt_pc, calVars>>

\* one entity of a realtime feed handed to _process_trip_update
FeedEntity ==
    /\ patches < MaxPatches
    /\ \E tu \in ProviderTripUpdates(today), deleted \in BOOLEAN :
          /\ store' = process_trip_update(store, tu, deleted)
          /\ last' = [op |-> "feed_entity", trip_update |-> tu,
                      deleted |-> deleted]
    /\ patches' = patches + 1
    /\ UNCHANGED <<today, loads, concVars, calVars>>

SearchStopsRequest ==
    /\ \E request \in SearchRequests :
          \E result \in {handle_search_stops_request(store, health, request)} :
             /\ last' = [op |-> "search_stops", available |-> health,
                         request |-> request, status |-> result.status,
                         stops |-> result.stops]
             /\ store' = IF result.status = "ok" THEN StoreAfterSearch(store)
                         ELSE store
    /\ UNCHANGED <<today, loads, patches, concVars, calVars>>

GetNextServicesRequest ==
    /\ \E request \in ServicesRequests(today) :
          \E result \in {handle_get_next_services_request(store, health, request)} :
             /\ last' = [op |-> "get_next_services", available |-> health,
                         request |-> request, status |-> result.status,
                         services |-> result.services]
             /\ store' = IF result.status = "ok"
                         THEN StoreAfterQuery(store, request.stop_id)
                         ELSE store
    /\ UNCHANGED <<today, loads, patches, concVars, calVars>>

GetNextTrainsRequest ==
    /\ \E request \in TrainsRequests(today) :
       \E now \in WallClocks(request) :
          \E result \in {handle_get_next_trains_request(store, health, request, now)} :
             /\ last' = [op |-> "get_next_trains", available |-> health,
                         request |-> request, now |-> now,
                         status |-> result.status,
                         down_trains |-> result.down_trains,
                         up_trains |-> result.up_trains]
             /\ store' = IF result.status = "ok"
                         THEN StoreAfterQuery(store, request.stop_id)
                         ELSE store
    /\ UNCHANGED <<today, loads, patches, concVars, calVars>>

NextProvider ==
    \/ ProviderReloadTick
    \/ FeedEntity
    \/ SearchStopsRequest
    \/ GetNextServicesRequest
    \/ GetNextTrainsRequest

SpecProvider == InitProvider /\ [][NextProvider]_vars

---------------------------------------------------------------------------
(* Properties of the provider and the applier, checked under SpecProvider *)

\* a feed entity that is applied to an existing trip instance
Applied(l) ==
    /\ l.op = "feed_entity"
    /\ ~l.deleted

\* every GetNextServices request at a stop of the trip or at its station
RequestsAtStopsOf(s, trip_id, day) ==
    { [stop_id |-> x[1], time |-> x[2], route_type |-> x[3],
       max_results |-> MaxResultsAsked(x[3])] :
      x \in ({s.stop_times_by_trip[trip_id][i].stop_id :
                 i \in DOMAIN s.stop_times_by_trip[trip_id]} \cup {"a"})
             \X {Localize(day, 8)}
             \X {"RAIL", "TRAM", "BUS"} }

\* the stop-time instances of a trip instance
StopTimeInstancesOf(s, trip_id, date) ==
    InstsOf(s.stop_time_instances_by_date[date], trip_id)

\* C11: once a trip update with schedule relationship 3 has been processed
\* for an existing (trip, date), no GetNextServices request at a stop of the
\* trip returns a stop-time instance of that trip instance, while the trip
\* instance (cancelled) and all its stop-time instances are still stored.
C11_CancelledTripFiltered ==
    [][(/\ Applied(last')
        /\ last'.trip_update.schedule_relationship
               = CANCELLED_TRIP_SCHEDULE_RELATIONSHIP
        /\ HasTripInstance(store, last'.trip_update.trip_id,
                           last'.trip_update.start_date))
       => LET trip_id == Lower(last'.trip_update.trip_id)
              date == last'.trip_update.start_date
          IN /\ HasTripInstance(store', trip_id, date)
             /\ store'.trip_instances_by_date[date][trip_id].cancelled
             /\ Len(StopTimeInstancesOf(store', trip_id, date))
                    = Len(store'.stop_times_by_trip[trip_id])
             /\ \A request \in RequestsAtStopsOf(store', trip_id, date) :
                   LET services == handle_get_next_services_request(
                                       store', TRUE, request).services
                   IN \A i \in DOMAIN services :
                         ~(services[i].trip_id = trip_id /\ services[i].date = date)
      ]_vars

\* a cancellation has been processed for a trip whose departure from b a
\* request at the station would otherwise have listed
C11_Witness ==
    /\ Applied(last)
    /\ last.trip_update.schedule_relationship = CANCELLED_TRIP_SCHEDULE_RELATIONSHIP
    /\ HasTripInstance(store, "t1", today)
    /\ TripOf(store, [trip_id |-> "t1", date |-> today]).cancelled
    /\ \E i \in DOMAIN StopTimeInstancesOf(store, "t1", today) :
          LET st == StopTimeInstancesOf(store, "t1", today)[i]
          IN /\ ~st.skipped /\ ~st.terminates
             /\ actual_departure_time(st) = Localize(today, 8)

\* the stop-time instance (trip, date, sequence)
StopTimeInstanceAt(s, trip_id, date, sequence) ==
    LET insts == StopTimeInstancesOf(s, trip_id, date)
    IN insts[IndexOfSeq(insts, sequence)]

\* C12: a stop-time update addressed to sequence s of (trip, date) changes
\* only the instance (trip, date, s): it gets the skipped flag of the update,
\* an arrival override becomes its actual arrival time while its actual
\* departure time stays what it was, every other stop-time instance is left
\* as it was, and a time-range query at its stop returns it exactly once.
C12_StopTimeUpdateIsLocal ==
    [][(/\ Applied(last')
        /\ last'.trip_update.stop_time_update # <<>>
        /\ HasTripInstance(store, last'.trip_update.trip_id,
                           last'.trip_update.start_date))
       => LET trip_id == Lower(last'.trip_update.trip_id)
              date == last'.trip_update.start_date
              updates == last'.trip_update.stop_time_update
              addressed == {updates[i].stop_sequence : i \in DOMAIN updates}
              old == store.stop_time_instances_by_date
              new == store'.stop_time_instances_by_date
          IN /\ DOMAIN new = DOMAIN old
             /\ \A d \in DOMAIN old :
                   /\ Len(new[d]) = Len(old[d])
                   /\ \A k \in DOMAIN old[d] :
                         /\ new[d][k].trip_id = old[d][k].trip_id
                         /\ Len(new[d][k].insts) = Len(old[d][k].insts)
                         /\ \A j \in DOMAIN old[d][k].insts :
                               \/ /\ d = date
                                  /\ old[d][k].trip_id = trip_id
                                  /\ old[d][k].insts[j].sequence \in addressed
                               \/ new[d][k].insts[j] = old[d][k].insts[j]
             /\ \A i \in DOMAIN updates :
                   LET u == updates[i]
                       before == StopTimeInstanceAt(store, trip_id, date,
                                                    u.stop_sequence)
                       after == StopTimeInstanceAt(store', trip_id, date,
                                                   u.stop_sequence)
                       departs == actual_departure_time(after)
                       result == get_stop_time_instances_between(
                                     store', after.stop_id, departs, departs + 1)
                   IN /\ after.skipped
                             = (u.schedule_relationship
                                    = SKIPPED_STOP_SCHEDULE_RELATIONSHIP)
                      /\ u.arrival # NoTime
                             => actual_arrival_time(after) = u.arrival
                      /\ u.departure = NoTime
                             => actual_departure_time(after)
                                    = actual_departure_time(before)
                      /\ Cardinality({n \in DOMAIN result :
                                         Ref(result[n]) = Ref(after)}) = 1
                      /\ \A n \in DOMAIN result :
                            Ref(result[n]) = Ref(after) => result[n] = after
      ]_vars

\* sequence 2 has been marked skipped and sequence 3 given an arrival
\* override: sequence 3 is not skipped and still departs as scheduled
C12_Witness ==
    /\ Applied(last)
    /\ last.trip_update = PU_stops(today)
    /\ HasTripInstance(store, "t1", today)
    /\ StopTimeInstanceAt(store, "t1", today, 2).skipped
    /\ ~StopTimeInstanceAt(store, "t1", today, 3).skipped
    /\ actual_arrival_time(StopTimeInstanceAt(store, "t1", today, 3))
           = Localize(today, 11)
    /\ actual_departure_time(StopTimeInstanceAt(store, "t1", today, 3))
           = Localize(today, 10)
    /\ Len(get_stop_time_instances_between(
               store, "d", Localize(today, 10), Localize(today, 11))) = 1

\* a request for the next services or trains names a stop the store has not
UnknownStop(s, l) ==
    /\ l.op \in {"get_next_services", "get_next_trains"}
    /\ ~HasId(s.stops, Lower(l.request.stop_id))

\* C17: while the static availability is false every handler fails with
\* 'unavailable' and leaves the store as it was; while it is true,
\* GetNextServices and GetNextTrains fail with 'not found' for an unknown
\* stop id, and every other request is answered, possibly with an empty
\* result.
C17_ErrorConditions ==
    /\ [](last.op \in ProviderOps
             => last.status = IF ~last.available THEN "unavailable"
                              ELSE IF UnknownStop(store, last) THEN "not_found"
                              ELSE "ok")
    /\ [][(last'.op \in ProviderOps /\ ~last'.available) => store' = store]_vars

\* a request for an unknown stop has been refused as 'unavailable' on a
\* loaded store
C17_Witness ==
    /\ last.op \in ProviderOps
    /\ ~last.available
    /\ UnknownStop(store, last)
    /\ last.status = "unavailable"
    /\ store.stops # <<>>

\* a request for an unknown stop has failed with 'not found', and a request
\* for a known stop at which nothing qualifies was answered with no service
C17_WitnessNotFound ==
    \/ /\ last.op = "get_next_trains"
       /\ last.available
       /\ last.status = "not_found"
    \/ /\ last.op = "get_next_services"
       /\ last.status = "ok"
       /\ last.services = <<>>

\* C15: after the applier has processed a feed entity marked deleted for an
\* existing (trip id, start date), the trip instance is not cancelled, none
\* of its stop-time instances is skipped or carries an arrival or departure
\* override, and the trip instance and its stop-time instances still exist.
C15_DeletedEntityResets ==
    [][(/\ last'.op = "feed_entity"
        /\ last'.deleted
        /\ HasTripInstance(store, last'.trip_update.trip_id,
                           last'.trip_update.start_date))
       => LET trip_id == Lower(last'.trip_update.trip_id)
              date == last'.trip_update.start_date
              insts == StopTimeInstancesOf(store', trip_id, date)
          IN /\ HasTripInstance(store', trip_id, date)
             /\ ~store'.trip_instances_by_date[date][trip_id].cancelled
             /\ Len(insts) = Len(store'.stop_times_by_trip[trip_id])
             /\ \A i \in DOMAIN insts :
                   /\ ~insts[i].skipped
                   /\ insts[i].actual_arrival_time = NoTime
                   /\ insts[i].actual_departure_time = NoTime
      ]_vars

\* the stop-time instances a GetNextServices request asks for
Qualifying(s, request) ==
    {st \in RegisteredUnder(s, SubtreeOf(s, Lower(request.stop_id))) :
        /\ request.time <= DepartureOf(st)
        /\ DepartureOf(st) < request.time + lookahead_window(request.route_type)
        /\ ~st.skipped
        /\ ~st.terminates
        /\ s.routes[TripOf(s, st).route_id].type = request.route_type
        /\ ~TripOf(s, st).cancelled}

\* C18: GetNextServices returns, in ascending order of actual departure, the
\* earliest stop-time instances at the stop or a descendant stop that depart
\* in [time, time + lookahead(routeType)), are not skipped, do not terminate,
\* are of the route type and of a trip instance that is not cancelled: every
\* returned instance qualifies, and no qualifying instance is left out while
\* a later one is returned.
C18_NextServices ==
    (last.op = "get_next_services" /\ last.status = "ok")
        => /\ \A i \in DOMAIN last.services :
                 last.services[i] \in Qualifying(store, last.request)
           /\ SortedByDeparture(last.services)
           /\ \A st \in Qualifying(store, last.request) :
                 \/ st \in Range(last.services)
                 \/ /\ last.services # <<>>
                    /\ \A i \in DOMAIN last.services :
                          DepartureOf(last.services[i]) <= DepartureOf(st)

\* C19: GetNextServices returns at most as many instances, and GetNextTrains
\* at most as many in either direction list, as the max_results of the
\* request.
C19_MaxResultsOfRequest ==
    /\ last.op = "get_next_services"
           => Len(last.services) <= last.request.max_results
    /\ last.op = "get_next_trains"
           => /\ Len(last.down_trains) <= last.request.max_results
              /\ Len(last.up_trains) <= last.request.max_results

\* C20: for any request time, equal to the wall clock or not, both direction
\* lists of GetNextTrains hold only instances that depart in
\* [time, time + lookahead(rail)), and every returned instance is in the list
\* of the direction of its trip and in no other.
C20_NextTrainsWindow ==
    (last.op = "get_next_trains" /\ last.status = "ok")
        => /\ \A st \in Range(last.down_trains) \cup Range(last.up_trains) :
                 /\ last.request.time <= DepartureOf(st)
                 /\ DepartureOf(st) < last.request.time + lookahead_window("RAIL")
           /\ \A st \in Range(last.down_trains) :
                 TripOf(store, st).direction = "DOWNWARD"
           /\ \A st \in Range(last.up_trains) :
                 TripOf(store, st).direction = "UPWARD"

---------------------------------------------------------------------------
(* Properties of the static reload, checked under SpecConc *)

\* the step of the reload in which clear() runs
ClearStep == static_pc = "set_unhealthy" /\ static_pc' = "routes"

\* the step of a tick whose download fails or brings no newer dataset
NoNewerStep == static_pc = "download" /\ static_pc' = "idle"

\* the step of the reload in which create_trip_instances() completes
CreatedStep == static_pc = "stop_times" /\ static_pc' = "set_healthy"

\* C16: the static availability is 'unavailable' until the first load has
\* completed; clear() runs only after 'unavailable' was published and
\* 'available' is published only by the step in which create_trip_instances()
\* of the load completes; a tick without a newer dataset publishes nothing;
\* after a load that failed part-way the availability is 'unavailable'.
C16_AvailabilityStateMachine ==
    /\ [](last_updated = 0 => ~health)
    /\ [](health => generation.complete)
    /\ [](static_pc = "failed" => ~health)
    /\ [][(ClearStep => ~health)
          /\ (health' /\ ~health => CreatedStep)
          /\ (NoNewerStep => health' = health /\ notify' = notify)]_vars

\* a reload that followed a completed load has failed part-way
C16_Witness ==
    /\ static_pc = "failed"
    /\ last_updated > 0
    /\ ~generation.complete
    /\ ~health

\* C13: after clear() returns, every map and index of the store is empty,
\* as in a store that has just been constructed.
C13_ClearEmptiesEveryMap ==
    [][ClearStep => \A field \in DOMAIN EmptyStore :
                        store'[field] = EmptyStore[field]]_vars

---------------------------------------------------------------------------
(* Id specification: the by-id lookups of the store and                    *)
(* add_service_exception, on a store loaded from rows whose ids are in     *)
(* upper case                                                              *)

UpperDataset ==
    [routes |-> <<[route_id |-> "R1", route_type |-> "RAIL"]>>,
     services |-> <<[ServiceRows[1] EXCEPT !.service_id = "SV1"]>>,
     trips |-> <<[trip_id |-> "T1", route_id |-> "R1", service_id |-> "SV1",
                  direction_id |-> "0"]>>,
     stops |-> <<[stop_id |-> "A", parent_station |-> ""],
                 [stop_id |-> "B", parent_station |-> "A"]>>,
     stop_times |-> <<[trip_id |-> "T1", stop_sequence |-> 1, stop_id |-> "B",
                       arrival_time |-> hhmmss(8, 0, 0), departure_time |-> hhmmss(8, 0, 0),
                       pickup_type |-> "0"]>>]

\* the ids of the lookups: as inserted, in lower case, and one never inserted
IdCases(id) == {id, Lower(id), "zz"}

CalendarDateRows ==
    [service_id : {"SV1", "sv1"}, date : {Today0, Today0 + 1},
     exception_type : {1, 2}]

InitIds ==
    /\ store = load_static_gtfs_data(EmptyStore, UpperDataset, Today0)
    /\ today = Today0
    /\ loads = 1
    /\ patches = 0
    /\ last = [op |-> "load"]
    /\ ConcIdle
    /\ CalIdle

AddServiceException ==
    /\ patches < MaxPatches
    /\ \E data \in CalendarDateRows :
          /\ store' = add_service_exception(store, data)
          /\ last' = [op |-> "add_service_exception", id |-> data.service_id]
    /\ patches' = patches + 1
    /\ UNCHANGED <<today, loads, concVars, calVars>>

GetRoute ==
    /\ \E id \in IdCases("R1") :
          last' = [op |-> "get_route", id |-> id,
                   found |-> get_route(store, id) # <<>>]
    /\ UNCHANGED <<store, today, loads, patches, concVars, calVars>>

GetService ==
    /\ \E id \in IdCases("SV1") :
          last' = [op |-> "get_service", id |-> id,
                   found |-> get_service(store, id) # <<>>]
    /\ UNCHANGED <<store, today, loads, patches, concVars, calVars>>

GetTrip ==
    /\ \E id \in IdCases("T1") :
          last' = [op |-> "get_trip", id |-> id,
                   found |-> get_trip(store, id) # <<>>]
    /\ UNCHANGED <<store, today, loads, patches, concVars, calVars>>

GetStop ==
    /\ \E id \in IdCases("B") :
          last' = [op |-> "get_stop", id |-> id,
                   found |-> get_stop(store, id) # <<>>]
    /\ UNCHANGED <<store, today, loads, patches, concVars, calVars>>

GetServiceExceptions ==
    /\ \E id \in IdCases("SV1") :
          /\ last' = [op |-> "get_service_exceptions", id |-> id,
                      found |-> get_service_exceptions(store, id) # EmptyMap]
          /\ store' = [store EXCEPT !.services_exceptions =
                          Touch(@, Lower(id), EmptyMap)]
    /\ UNCHANGED <<today, loads, patches, concVars, calVars>>

NextIds ==
    \/ AddServiceException
    \/ GetRoute
    \/ GetService
    \/ GetTrip
    \/ GetStop
    \/ GetServiceExceptions

SpecIds == InitIds /\ [][NextIds]_vars

\* the ids under which entries of the kind a lookup reads were inserted
InsertedIds(s, op) ==
    CASE op = "get_route" -> {UpperDataset.routes[i].route_id :
                                 i \in DOMAIN UpperDataset.routes}
      [] op = "get_service" -> {UpperDataset.services[i].service_id :
                                   i \in DOMAIN UpperDataset.services}
      [] op = "get_trip" -> {UpperDataset.trips[i].trip_id :
                                i \in DOMAIN UpperDataset.trips}
      [] op = "get_stop" -> {UpperDataset.stops[i].stop_id :
                                i \in DOMAIN UpperDataset.stops}
      [] op = "get_service_exceptions" ->
             {id \in DOMAIN s.services_exceptions :
                 s.services_exceptions[id] # EmptyMap}

LookupOps ==
    {"get_route", "get_service", "get_trip", "get_stop", "get_service_exceptions"}

\* C14: an entry inserted under id X is found by a lookup with any id that
\* differs from X only in letter case, and by no other.
C14_IdsCaseInsensitive ==
    last.op \in LookupOps
        => (last.found <=> \E id \in InsertedIds(store, last.op) :
                              Lower(id) = Lower(last.id))

---------------------------------------------------------------------------
(* Properties of the loader and the materializer, checked under Spec *)

\* the trips of the loaded dataset that belong to a service
TripsOfService(s, service_id) ==
    {s.trips[i].id : i \in {j \in DOMAIN s.trips : s.trips[j].service_id = service_id}}

---------------------------------------------------------------------------
(* Properties of the stop search, checked under SpecProvider *)

\* the route types of the trips that call at the stop or at one of its
\* descendants in the loaded stop table
EffectiveRouteTypes(s, stop_id) ==
    {s.routes[s.trips[i].route_id].type :
        i \in {j \in DOMAIN s.trips :
                  \E st \in Range(s.stop_times_by_trip[s.trips[j].id]) :
                      st.stop_id \in SubtreeOf(s, stop_id)}}

\* C21: every stop SearchStops returns serves the requested route type and,
\* when parentOnly is set, has no parent station, also when the query equals
\* a stop id; the result holds at most limit stops.
C21_SearchRestrictions ==
    (last.op = "search_stops" /\ last.status = "ok") =>
        /\ \A stop \in Range(last.stops) :
              /\ last.request.route_type \in EffectiveRouteTypes(store, stop.id)
              /\ last.request.parent_only => stop.parent_station_id = None
        /\ Len(last.stops) <= last.request.limit

---------------------------------------------------------------------------
(* Properties of the static indexes, checked under Spec *)

\* C22: for every stop-time the loader has added, at stop S for a trip on a
\* route of type T, stop_has_route_with_type(A, T) is true for S and for
\* every ancestor A of S in the parent-station tree.
C22_RouteTypeReachesAncestors ==
    \A i \in DOMAIN store.trips :
        store.trips[i].id \in DOMAIN store.stop_times_by_trip =>
            \A st \in Range(store.stop_times_by_trip[store.trips[i].id]) :
                \A A \in {st.stop_id} \cup AncestorsOf(store, st.stop_id) :
                    stop_has_route_with_type(
                        store, A, store.routes[store.trips[i].route_id].type)

---------------------------------------------------------------------------
(* Properties of the materializer on a freshly loaded store, checked under *)
(* Spec                                                                    *)

\* the stop-time instances the store holds for the trip on the date
StopTimeInstancesOn(s, trip_id, date) ==
    IF date \in DOMAIN s.stop_time_instances_by_date
    THEN InstsOf(s.stop_time_instances_by_date[date], trip_id)
    ELSE <<>>

\* the stop sequences of the trip in the static data
SequencesOf(s, trip_id) ==
    IF trip_id \in DOMAIN s.stop_times_by_trip
    THEN {s.stop_times_by_trip[trip_id][k].sequence :
             k \in DOMAIN s.stop_times_by_trip[trip_id]}
    ELSE {}

\* the trip has an instance on the date exactly when its service runs, and
\* then one stop-time instance per stop sequence, otherwise none
MaterializedFromStatic(s, date) ==
    \A i \in DOMAIN s.trips :
        LET trip == s.trips[i]
            insts == StopTimeInstancesOn(s, trip.id, date)
        IN /\ HasTripInstance(s, trip.id, date)
                 <=> runs_on(ServiceOf(s, trip.service_id), date)
           /\ IF HasTripInstance(s, trip.id, date)
              THEN /\ {insts[k].sequence : k \in DOMAIN insts} = SequencesOf(s, trip.id)
                   /\ Len(insts) = Cardinality(SequencesOf(s, trip.id))
                   /\ \A k \in DOMAIN insts : insts[k].date = date
              ELSE insts = <<>>

\* C24: after create_trip_instances on a freshly loaded store, for every date
\* of yesterday, today and tomorrow and every trip, a trip instance exists
\* exactly when the trip's service runs on the date; an existing trip instance
\* has exactly one stop-time instance per stop sequence of the trip and a trip
\* that does not run has none.
C24_InstancesFollowCalendar ==
    last.op = "load" => \A date \in Window(today) : MaterializedFromStatic(store, date)

\* a fresh load after which one trip runs on a date of the window and another
\* trip does not
C24_Witness ==
    /\ last.op = "load"
    /\ \E date \in Window(today) :
          /\ HasTripInstance(store, "t1", date)
          /\ Len(StopTimeInstancesOn(store, "t1", date)) = 2
          /\ ~HasTripInstance(store, "t2", date)
          /\ HasId(store.trips, "t2")

\* the dates for which the store holds a trip instance, a stop-time instance
\* or an entry of a stop's instance list
DatesWithInstances(s) ==
    {d \in DOMAIN s.trip_instances_by_date : DOMAIN s.trip_instances_by_date[d] # {}}
        \cup {d \in DOMAIN s.stop_time_instances_by_date :
                 Flatten(s.stop_time_instances_by_date[d]) # <<>>}
        \cup {ref.date : ref \in UNION {Range(s.stop_time_instances_by_stop[x]) :
                                           x \in DOMAIN s.stop_time_instances_by_stop}}

\* C25: after every periodic refresh tick (remove_old_trip_instances, then
\* create_trip_instances), however far the date has advanced since the tick
\* before, the dates that hold instances lie within yesterday, today and
\* tomorrow, and each of the three dates is materialized from the static data
\* the store holds.
C25_WindowAfterRefresh ==
    last.op \in {"refresh", "load"} =>
        /\ DatesWithInstances(store) \subseteq Window(today)
        /\ \A date \in Window(today) :
              /\ date \in DOMAIN store.trip_instances_by_date
              /\ MaterializedFromStatic(store, date)

\* a refresh tick two days after the tick before: it pruned dates that held
\* instances, kept one materialized date and materialized two new ones
C25_Witness ==
    /\ last.op = "refresh"
    /\ Cardinality(last.created) = 2
    /\ \E d \in last.pruned : d \notin DOMAIN store.trip_instances_by_date
    /\ today = Today0 + 2
    /\ HasTripInstance(store, "t2", today)
    /\ HasTripInstance(store, "t1", today - 1)
    /\ HasTripInstance(store, "t1", today + 1)

---------------------------------------------------------------------------
(* Properties of the realtime applier within one feed message, checked     *)
(* under SpecConc                                                          *)

\* the step is the application of a fetched feed message
FeedApplied == last'.op = "realtime_apply" /\ last' # last

\* the entity carries a trip update that is processed to its end
ProcessedToEnd(s, entity) ==
    /\ entity.trip_update # <<>>
    /\ entity.trip_update[1].trip_id # None
    /\ entity.trip_update[1].start_date # NoTime
    /\ ~TripUpdateRaises(s, entity.trip_update[1], entity.is_deleted)

\* the entity carries a trip update whose processing raises
EntityRaises(s, entity) ==
    /\ entity.trip_update # <<>>
    /\ TripUpdateRaises(s, entity.trip_update[1], entity.is_deleted)

\* entity j addresses the trip instance of entity k
SameTripInstance(msg, j, k) ==
    /\ msg[j].trip_update # <<>>
    /\ Lower(msg[j].trip_update[1].trip_id) = Lower(msg[k].trip_update[1].trip_id)
    /\ msg[j].trip_update[1].start_date = msg[k].trip_update[1].start_date

\* C26: within one feed message, an entity whose processing raises (unknown
\* trip, unknown date, missing store operation) does not stop the applier:
\* every later entity is processed, and the patches of an entity that no
\* later entity of the message overwrites are in the store afterwards.
C26_EntitiesIsolated ==
    [][FeedApplied =>
          LET msg == last'.feed_message
          IN \A k \in DOMAIN msg :
                ProcessedToEnd(store, msg[k]) =>
                    LET tu == msg[k].trip_update[1]
                        id == Lower(tu.trip_id)
                        later == {j \in DOMAIN msg : j > k /\ SameTripInstance(msg, j, k)}
                    IN /\ later = {} =>
                             store'.trip_instances_by_date[tu.start_date][id].cancelled
                                 = (tu.schedule_relationship
                                        = CANCELLED_TRIP_SCHEDULE_RELATIONSHIP)
                       /\ \A i \in DOMAIN tu.stop_time_update :
                             LET u == tu.stop_time_update[i]
                                 after == StopTimeInstanceAt(store', id, tu.start_date,
                                                             u.stop_sequence)
                             IN (\A j \in later :
                                    \A n \in DOMAIN msg[j].trip_update[1].stop_time_update :
                                        msg[j].trip_update[1].stop_time_update[n].stop_sequence
                                            # u.stop_sequence)
                                => /\ after.skipped
                                         = (u.schedule_relationship
                                                = SKIPPED_STOP_SCHEDULE_RELATIONSHIP)
                                   /\ u.arrival # NoTime
                                         => after.actual_arrival_time = u.arrival
                                   /\ u.departure # NoTime
                                         => after.actual_departure_time = u.departure
      ]_vars

\* a message has been applied in which entities raised for an unknown trip, a
\* deleted trip update and an unknown date, and the two entities after them
\* have marked the first stop of t1 skipped and the trip cancelled
C26_Witness ==
    /\ last.op = "realtime_apply"
    /\ \E k \in DOMAIN last.feed_message :
          /\ last.feed_message[k].trip_update = <<TU_unknown_trip(today)>>
          /\ \E j \in DOMAIN last.feed_message :
                j > k /\ last.feed_message[j].trip_update = <<TU_cancel(today)>>
    /\ HasTripInstance(store, "t1", today)
    /\ store.trip_instances_by_date[today]["t1"].cancelled
    /\ StopTimeInstanceAt(store, "t1", today, 1).skipped
    /\ StopTimeInstanceAt(store, "t1", today, 2).actual_arrival_time = NoTime

---------------------------------------------------------------------------
(* Properties of the realtime applier on one feed entity, checked under    *)
(* SpecRealtime                                                            *)

StaticFields ==
    {"routes", "services", "services_exceptions", "trips", "trips_by_route",
     "trips_by_service", "stops", "children_stops", "stop_times_by_trip",
     "route_types_by_stop"}

\* the (date, trip) pairs that have a trip instance
TripInstanceKeys(s) ==
    UNION {{<<d, id>> : id \in DOMAIN s.trip_instances_by_date[d]} :
              d \in DOMAIN s.trip_instances_by_date}

\* the (date, trip, sequence) triples that have a stop-time instance
StopTimeInstanceKeys(s) ==
    UNION {{Ref(inst) : inst \in Range(Flatten(s.stop_time_instances_by_date[d]))} :
              d \in DOMAIN s.stop_time_instances_by_date}

\* the instance without its realtime fields
WithoutRealtime(inst) ==
    [inst EXCEPT !.skipped = FALSE, !.actual_arrival_time = NoTime,
                 !.actual_departure_time = NoTime]

\* C27: processing a feed entity leaves the static maps and their indexes as
\* they were and leaves the set of trip instances and of stop-time instances
\* as it was; only the cancelled flag of the addressed (trip, date) and the
\* skipped flag and the actual arrival and departure times of its stop-time
\* instances can change.
C27_FeedEntityFrame ==
    [][last'.op = "process_trip_update" =>
          LET tu == last'.trip_update
              addressed(date, trip_id) ==
                  date = tu.start_date /\ trip_id = Lower(tu.trip_id)
          IN /\ \A f \in StaticFields : store'[f] = store[f]
             /\ store'.stop_time_instances_by_stop = store.stop_time_instances_by_stop
             /\ TripInstanceKeys(store') = TripInstanceKeys(store)
             /\ \A k \in TripInstanceKeys(store) :
                   LET old == store.trip_instances_by_date[k[1]][k[2]]
                       new == store'.trip_instances_by_date[k[1]][k[2]]
                   IN /\ [new EXCEPT !.cancelled = old.cancelled] = old
                      /\ ~addressed(k[1], k[2]) => new = old
             /\ StopTimeInstanceKeys(store') = StopTimeInstanceKeys(store)
             /\ \A ref \in StopTimeInstanceKeys(store) :
                   /\ WithoutRealtime(Deref(store', ref))
                          = WithoutRealtime(Deref(store, ref))
                   /\ ~addressed(ref.date, ref.trip_id) =>
                          Deref(store', ref) = Deref(store, ref)
      ]_vars

\* a trip update has marked a stop of an existing trip instance skipped and
\* a trip update for a date without instances has been processed
C27_Witness ==
    /\ last.op = "process_trip_update"
    /\ ~last.deleted
    /\ last.trip_update = TU_unknown_date(today)
    /\ today + 5 \in DOMAIN store.trip_instances_by_date
    /\ HasStopTimeInstance(store, "t1", today, 1)
    /\ Deref(store, [date |-> today, trip_id |-> "t1", sequence |-> 1]).skipped
    /\ HasTripInstance(store, "t2", today)

\* C30: within one trip update for an existing (trip, date), a stop-time
\* update whose stop sequence has no instance is dropped on its own: every
\* stop-time update of the trip update whose stop sequence has an instance,
\* those after the dropped one included, is applied to its instance.
C30_MissingSequenceDroppedAlone ==
    [][(/\ last'.op = "process_trip_update"
        /\ ~last'.deleted
        /\ HasTripInstance(store, last'.trip_update.trip_id,
                           last'.trip_update.start_date))
       => LET tu == last'.trip_update
          IN \A i \in DOMAIN tu.stop_time_update :
                LET u == tu.stop_time_update[i]
                    ref == [date |-> tu.start_date, trip_id |-> Lower(tu.trip_id),
                            sequence |-> u.stop_sequence]
                IN HasStopTimeInstance(store, tu.trip_id, tu.start_date,
                                       u.stop_sequence)
                   => /\ Deref(store', ref).skipped
                            = (u.schedule_relationship
                                   = SKIPPED_STOP_SCHEDULE_RELATIONSHIP)
                      /\ u.arrival # NoTime
                            => Deref(store', ref).actual_arrival_time = u.arrival
                      /\ u.departure # NoTime
                            => Deref(store', ref).actual_departure_time
                                   = u.departure
      ]_vars

---------------------------------------------------------------------------
(* Properties of the times past midnight, checked under Spec *)

\* the local date of an instant
LocalDate(t) == (t + TzOffsetHours) \div HoursPerDay

\* the stop-time of trip t2 that stop_times.txt gives as 25:00:00, at stop a
LateStopTime == [trip_id |-> "t2", sequence |-> 2, stop_id |-> "a"]

\* C29: the stop-time whose time of day is 25:00:00 is stored as a duration
\* of 25 hours; its instance for service date d has the scheduled departure
\* local midnight of d plus the duration, which falls on d + 1; a time-range
\* query on d + 1 that covers that moment returns the instance dated d, d
\* being yesterday and so still in the window.
C29_PastMidnight ==
    /\ \A k \in DOMAIN store.stop_times_by_trip :
          \A st \in Range(store.stop_times_by_trip[k]) :
              (st.trip_id = LateStopTime.trip_id /\ st.sequence = LateStopTime.sequence)
                  => /\ st.departure_time = HoursPerDay + 1
                     /\ st.arrival_time = HoursPerDay + 1
    /\ \A ref \in StopTimeInstanceKeys(store) :
          (ref.trip_id = LateStopTime.trip_id /\ ref.sequence = LateStopTime.sequence)
              => LET inst == Deref(store, ref)
                     departs == scheduled_departure_time(inst)
                 IN /\ departs = Localize(ref.date, 0) + HoursPerDay + 1
                    /\ LocalDate(departs) = ref.date + 1
                    /\ ref.date = today - 1
                           => \E n \in DOMAIN get_stop_time_instances_between(
                                      store, LateStopTime.stop_id, departs, departs + 1) :
                                 get_stop_time_instances_between(
                                     store, LateStopTime.stop_id, departs, departs + 1)[n]
                                     = inst

\* on the day after the service date a query at stop a has returned the
\* instance of the day before, which departs at 01:00 of the day of the query
C29_Witness ==
    /\ last.op = "get_stop_time_instances_between"
    /\ last.stop_id = LateStopTime.stop_id
    /\ today = Today0 + 1
    /\ \E n \in DOMAIN last.result :
          /\ last.result[n].trip_id = LateStopTime.trip_id
          /\ last.result[n].sequence = LateStopTime.sequence
          /\ last.result[n].date = today - 1
          /\ last.result[n].departure_time = HoursPerDay + 1
          /\ scheduled_departure_time(last.result[n]) = Localize(today, 1)
          /\ last.start_time <= Localize(today, 1)
          /\ Localize(today, 1) < last.end_time

---------------------------------------------------------------------------
(* Properties of the network fetches, checked under SpecConc *)

\* StaticGtfsHandler._lock: taken at the head of the tick, released at its end
StaticLockHeld == static_pc \notin {"idle", "failed"}

\* RealtimeGtfsHandler._lock: taken at the head of the tick, released after
\* the entities of the fetched message are processed
RealtimeLockHeld == rt_pc # "idle"

\* C28: while the static zip download or the realtime feed fetch is in
\* flight, the lock under which the handler writes to the store is not held
\* and the fetch leaves the availability as it is, so that a query issued
\* during the fetch is answered from the loaded generation without waiting.
C28_FetchesOutsideLock ==
    [][/\ static_pc' = "download" =>
             /\ ~StaticLockHeld'
             /\ health' = health
             /\ generation' = generation
       /\ rt_pc' = "fetch" =>
             /\ ~RealtimeLockHeld'
             /\ static_pc' = static_pc => health' = health
      ]_vars

---------------------------------------------------------------------------
(* Properties of the reload decision, checked under SpecConc *)

\* the step of a tick that starts the reload of the downloaded dataset
ReloadStep == static_pc = "download" /\ static_pc' = "set_unhealthy"

\* the step of a tick that downloaded a dataset and does not reload
NoReloadStep ==
    /\ static_pc = "download"
    /\ last'.op = "static_refresh"
    /\ last' # last

\* the step in which reading the dataset raises
LoadFailedStep ==
    /\ static_pc \in {"routes", "services", "trips", "stops", "stop_times"}
    /\ static_pc' \notin {"services", "trips", "stops", "stop_times", "set_healthy"}

\* C31: a tick reloads iff the last-modified time of the downloaded dataset
\* is greater than the last-applied value; the last-applied value changes
\* only in the step that completes the load, never decreases, and a load
\* that fails leaves it unchanged and the task waiting for its next tick,
\* which attempts the reload again.
C31_ReloadIffNewer ==
    [][/\ (ReloadStep => zip'.last_modified > last_updated)
       /\ (NoReloadStep => ~(last'.last_modified > last_updated))
       /\ (last_updated' # last_updated
              => CreatedStep /\ last_updated' = zip.last_modified)
       /\ last_updated' >= last_updated
       /\ (LoadFailedStep => last_updated' = last_updated /\ static_pc' = "idle")]_vars

\* the step of a tick in which the download raises
DownloadFailedStep ==
    /\ static_pc = "download"
    /\ last'.op = "static_download_failed"
    /\ last' # last

\* C32: clear() runs only in a tick whose dataset has been downloaded; the
\* start of a tick and a download that fails leave the store, the
\* last-applied timestamp and the published availability as they were.
C32_FailedDownloadChangesNothing ==
    [][/\ (ClearStep => zip \in Zips /\ zip' = zip)
       /\ ((static_pc = "idle" /\ static_pc' = "download") \/ DownloadFailedStep
              => /\ store' = store
                 /\ last_updated' = last_updated
                 /\ generation' = generation
                 /\ health' = health
                 /\ notify' = notify
                 /\ static_available' = static_available)]_vars

\* the download of a tick failed after a dataset had been loaded, and the
\* instances of that dataset are in the store
C32_Witness ==
    /\ last.op = "static_download_failed"
    /\ last_updated > 0
    /\ health
    /\ generation.complete
    /\ store.trip_instances_by_date # EmptyMap
    /\ \E date \in DOMAIN store.trip_instances_by_date :
          store.trip_instances_by_date[date] # EmptyMap

\* the ids of the rows of one file of the dataset, as the store keys them
RowIds(rows, column) == {Lower(rows[i][column]) : i \in DOMAIN rows}

\* the ids of the records of an insertion-ordered dict
IdsOf(d) == {d[i].id : i \in DOMAIN d}

\* the maps that only the loader writes hold nothing
StaticMapsEmpty(s) ==
    /\ s.routes = EmptyMap
    /\ s.services = EmptyMap
    /\ s.trips = <<>>
    /\ s.stops = <<>>
    /\ s.stop_times_by_trip = EmptyMap

\* the stop sequences the dataset has for each of its trips are in the store
StopTimesLoaded(s, dataset) ==
    \A i \in DOMAIN dataset.stop_times :
        dataset.stop_times[i].stop_sequence
            \in SequencesOf(s, Lower(dataset.stop_times[i].trip_id))

\* C33: in a reload the first route is added to a cleared store; when the
\* first trip is added every route and every service of the dataset, with
\* its calendar exceptions read, has been added; when the first stop-time is
\* added every stop has been added; and create_trip_instances() runs on a
\* store that holds every stop-time of the dataset.
C33_ReloadInDependencyOrder ==
    [][/\ (store'.routes # store.routes /\ store'.routes # EmptyMap
              => static_pc = "routes" /\ StaticMapsEmpty(store))
       /\ (store'.trips # store.trips /\ store'.trips # <<>>
              => /\ RowIds(zip.dataset.routes, "route_id") = DOMAIN store.routes
                 /\ RowIds(zip.dataset.services, "service_id") = DOMAIN store.services
                 /\ store.stops = <<>>
                 /\ store.stop_times_by_trip = EmptyMap)
       /\ (store'.stops # store.stops /\ store'.stops # <<>>
              => /\ RowIds(zip.dataset.trips, "trip_id") = IdsOf(store.trips)
                 /\ store.stop_times_by_trip = EmptyMap)
       /\ (store'.stop_times_by_trip # store.stop_times_by_trip
           /\ store'.stop_times_by_trip # EmptyMap
              => RowIds(zip.dataset.stops, "stop_id") = IdsOf(store.stops))
       /\ (CreatedStep
              => /\ StopTimesLoaded(store', zip.dataset)
                 /\ \A date \in Window(today) :
                        MaterializedFromStatic(store', date))]_vars

\* the reload of the second dataset has added its stops and not yet its
\* stop-times
C33_Witness ==
    /\ static_pc = "stop_times"
    /\ zip.last_modified = 2
    /\ last_updated = 1
    /\ IdsOf(store.stops) = {"a", "b", "c"}
    /\ IdsOf(store.trips) = {"t1"}
    /\ store.stop_times_by_trip = EmptyMap

---------------------------------------------------------------------------
(* Properties of the instance indexes *)

\* the number of entries of the list that refer to the instance
Occurrences(list, inst) == Cardinality({k \in DOMAIN list : list[k] = Ref(inst)})

\* every stop-time instance of the date maps is once in the list of its stop
\* and belongs to a trip instance; every entry of a stop list refers to a
\* stop-time instance of the date maps at that stop
IndexConsistent(s) ==
    /\ \A d \in DOMAIN s.stop_time_instances_by_date :
          \A inst \in Range(Flatten(s.stop_time_instances_by_date[d])) :
              /\ inst.date = d
              /\ inst.stop_id \in DOMAIN s.stop_time_instances_by_stop
              /\ Occurrences(s.stop_time_instances_by_stop[inst.stop_id], inst) = 1
              /\ HasTripInstance(s, inst.trip_id, d)
    /\ \A x \in DOMAIN s.stop_time_instances_by_stop :
          \A ref \in Range(s.stop_time_instances_by_stop[x]) :
              /\ HasStopTimeInstance(s, ref.trip_id, ref.date, ref.sequence)
              /\ Deref(s, ref).stop_id = x

\* C34: in every reachable state of the store a stop-time instance is in the
\* instance list of its stop iff it is in the date map, it occurs there once,
\* and the date map of the trip instances holds its trip instance.
C34_IndexConsistency == IndexConsistent(store)

---------------------------------------------------------------------------
(* Abort specification: the store operations on datasets in which a trip   *)
(* uses a service that calendar.txt does not list (GTFS allows a service   *)
(* that calendar_dates.txt alone defines), so that create_trip_instances() *)
(* raises KeyError at that trip                                            *)

DanglingDatasets ==
    { [routes |-> RouteRows, services |-> <<ServiceRows[1]>>,
       trips |-> tr,
       stops |-> <<[stop_id |-> "a", parent_station |-> ""],
                   [stop_id |-> "b", parent_station |-> "a"],
                   [stop_id |-> "c", parent_station |-> "a"]>>,
       stop_times |-> StopTimeRowsT1 \o StopTimeRowsT2] :
          tr \in {<<TripRowT1, TripRowT2>>, <<TripRowT2, TripRowT1>>} }

\* whether create_trip_instances() leaves by an exception
create_trip_instances_raises(s, day) ==
    MaterializeDate(
        MaterializeDate(
            MaterializeDate([s |-> s, raised |-> FALSE], day - 1),
            day),
        day + 1).raised

\* _load_static_gtfs_data whose create_trip_instances() raises: the tick ends
\* there
StaticLoadAborts ==
    /\ loads < MaxLoads
    /\ \E ds \in DanglingDatasets :
          store' = load_static_gtfs_data(store, ds, today)
    /\ loads' = loads + 1
    /\ last' = [op |-> "load_aborted"]
    /\ UNCHANGED <<today, patches, concVars, calVars>>

\* add_service for the service the trips refer to
AddService ==
    /\ store.trips # <<>>
    /\ "sv2" \notin DOMAIN store.services
    /\ store' = add_service(store, ServiceRows[2])
    /\ last' = [op |-> "add_service"]
    /\ UNCHANGED <<today, loads, patches, concVars, calVars>>

NextAbort ==
    \/ StaticLoadAborts
    \/ AddService
    \/ CreateTripInstances
    \/ RemoveOldTripInstances
    \/ AdvanceDay
    \/ SetTripInstanceStatus

SpecAbort == Init /\ [][NextAbort]_vars

\* every trip of the store whose service runs on the date has its trip
\* instance, one stop-time instance per stop sequence, and each of them once
\* in the instance list of its stop
FullyMaterialized(s, date) ==
    \A i \in DOMAIN s.trips :
        LET trip == s.trips[i]
            insts == StopTimeInstancesOn(s, trip.id, date)
        IN trip.service_id \in DOMAIN s.services
           /\ runs_on(ServiceOf(s, trip.service_id), date)
              => /\ HasTripInstance(s, trip.id, date)
                 /\ {insts[k].sequence : k \in DOMAIN insts} = SequencesOf(s, trip.id)
                 /\ \A k \in DOMAIN insts :
                       /\ insts[k].stop_id \in DOMAIN s.stop_time_instances_by_stop
                       /\ Occurrences(s.stop_time_instances_by_stop[insts[k].stop_id],
                                      insts[k]) = 1

\* C38: a create_trip_instances() call that returns, also one that follows a
\* call that aborted while materializing a date, leaves every date of the
\* window with the instances of every running trip, their stop-time instances
\* registered in the stop index.
C38_AbortedDateIsCompletedLater ==
    [][last'.op = "create_trip_instances"
       /\ ~create_trip_instances_raises(store, today)
          => \A date \in Window(today) : FullyMaterialized(store', date)]_vars

---------------------------------------------------------------------------
(* Properties of the queries after a load, checked under Spec *)

\* a static reload tick on the store
ReloadTick(s, ds, day) ==
    create_trip_instances(
        remove_old_trip_instances(load_static_gtfs_data(s, ds, day), day), day)

RouteTypes == {"RAIL", "BUS"}

\* the queries return the same on both stores
SameAnswers(s1, s2, day) ==
    /\ \A route_type \in RouteTypes :
          /\ get_stops_by_route_type(s1, route_type)
                 = get_stops_by_route_type(s2, route_type)
          /\ \A stop_id \in {"a", "b", "c"} :
                 stop_has_route_with_type(s1, stop_id, route_type)
                     = stop_has_route_with_type(s2, stop_id, route_type)
    /\ \A service_id \in {"sv1", "sv2"} :
          get_service_exceptions(s1, service_id) = get_service_exceptions(s2, service_id)
    /\ \A stop_id \in {"a", "b", "c"}, w \in QueryWindows(day) :
          get_stop_time_instances_between(s1, stop_id, w[1], w[2])
              = get_stop_time_instances_between(s2, stop_id, w[1], w[2])

\* C35: after a reload of dataset D the queries get_stops_by_route_type,
\* stop_has_route_with_type, get_service_exceptions and
\* get_stop_time_instances_between return what they return on a fresh store
\* loaded with D alone.
C35_ReloadLeavesNoResidue ==
    [][last'.op = "load"
          => \A ds \in Datasets :
                 store' = ReloadTick(store, ds, today)
                     => SameAnswers(store', ReloadTick(EmptyStore, ds, today), today)]_vars

\* the stops that a trip on a route of the type calls at
ServedBy(s, route_type) ==
    {st.stop_id : st \in UNION {Range(s.stop_times_by_trip[s.trips[i].id]) :
                                   i \in {j \in DOMAIN s.trips :
                                             s.routes[s.trips[j].route_id].type = route_type}}}

\* C36: after a load get_stops_by_route_type(T) holds every loaded stop at
\* most once, and holds a stop iff the stop or one of its descendants in the
\* stop table is served by a route of type T.
C36_StopsByRouteTypeOnce ==
    (last.op = "load" /\ loads = 1) =>
        \A route_type \in RouteTypes :
            LET result == get_stops_by_route_type(store, route_type)
            IN /\ \A i, j \in DOMAIN result : result[i] = result[j] => i = j
               /\ \A k \in DOMAIN store.stops :
                     store.stops[k] \in Range(result)
                         <=> SubtreeOf(store, store.stops[k].id)
                                 \cap ServedBy(store, route_type) # {}

---------------------------------------------------------------------------
(* Refresh specification: the realtime setters, the periodic refresh tick  *)
(* and the advancing date on a store that a static reload tick has         *)
(* populated                                                               *)

NextRefresh ==
    \/ SetTripInstanceStatus
    \/ SetStopTimeInstanceStatus
    \/ SetStopTimeActualArrivalTime
    \/ SetStopTimeActualDepartureTime
    \/ StaticRefreshTick
    \/ AdvanceDay

SpecRefresh == InitRealtime /\ [][NextRefresh]_vars

\* the entries of the stop lists that refer to instances of the date
ListedOn(s, date) ==
    [x \in DOMAIN s.stop_time_instances_by_stop |->
        SelectSeq(s.stop_time_instances_by_stop[x], LAMBDA ref : ref.date = date)]

\* C37: a refresh tick without reload (remove_old_trip_instances, then
\* create_trip_instances) leaves every trip instance and stop-time instance
\* whose date is yesterday or later as it is, with its cancelled flag, its
\* skipped flag and its arrival and departure overrides, and leaves the
\* entries of the stop lists for these dates as they are.
C37_RefreshKeepsRealtimeState ==
    [][last'.op = "refresh"
          => /\ \A date \in DOMAIN store.trip_instances_by_date :
                   (date >= today - 1 /\ DOMAIN store.trip_instances_by_date[date] # {})
                       => /\ date \in DOMAIN store'.trip_instances_by_date
                          /\ store'.trip_instances_by_date[date]
                                 = store.trip_instances_by_date[date]
                          /\ date \in DOMAIN store'.stop_time_instances_by_date
                          /\ store'.stop_time_instances_by_date[date]
                                 = store.stop_time_instances_by_date[date]
                          /\ \A x \in DOMAIN store.stop_time_instances_by_stop :
                                 ListedOn(store', date)[x] = ListedOn(store, date)[x]]_vars

\* after a refresh on a later day yesterday's trip instance is cancelled and
\* one of its stop-time instances is skipped or has an arrival override
C37_Witness ==
    /\ last.op = "refresh"
    /\ today > Today0
    /\ HasTripInstance(store, "t1", today - 1)
    /\ store.trip_instances_by_date[today - 1]["t1"].cancelled
    /\ \E inst \in Range(StopTimeInstancesOn(store, "t1", today - 1)) :
          inst.skipped \/ inst.actual_arrival_time # NoTime

---------------------------------------------------------------------------
(* Properties of the accessors, checked under Spec *)

\* the keys of every map of the store
KeysOfMaps(s) == [field \in DOMAIN s |-> DOMAIN s[field]]

\* C39: a call of get_stop_time_instances_between, with the id of a loaded
\* stop or of none, adds no key to and removes no key from any map of the
\* store.
C39_AccessorsLeaveKeys ==
    [][last'.op = "get_stop_time_instances_between"
          => KeysOfMaps(store') = KeysOfMaps(store)]_vars

---------------------------------------------------------------------------
(* Walk specification: the descendant walk of the queries on stop tables   *)
(* with any parent_station assignment.  The walk is a recursive generator: *)
(* the interpreter ends a recursion that exceeds its limit by raising      *)
(* RecursionError.                                                         *)

\* the ids _walk_child_stop_ids yields with depth frames left, and whether
\* the recursion exceeded the limit
RECURSIVE WalkFrom(_, _, _)
RECURSIVE WalkKids(_, _, _)
WalkFrom(children, parent_stop_id, depth) ==
    IF depth = 0 THEN [ids |-> <<>>, raised |-> TRUE]
    ELSE LET r == WalkKids(children,
                           IF parent_stop_id \in DOMAIN children
                           THEN children[parent_stop_id] ELSE <<>>,
                           depth - 1)
         IN [ids |-> <<parent_stop_id>> \o r.ids, raised |-> r.raised]
WalkKids(children, kids, depth) ==
    IF kids = <<>> THEN [ids |-> <<>>, raised |-> FALSE]
    ELSE LET h == WalkFrom(children, Head(kids), depth)
         IN IF h.raised THEN h
            ELSE LET t == WalkKids(children, Tail(kids), depth)
                 IN [ids |-> h.ids \o t.ids, raised |-> t.raised]

\* stops.txt with every parent_station of a among none, a itself and b, and
\* of b among none and a
WalkStopTables ==
    { <<[stop_id |-> "a", parent_station |-> pa],
        [stop_id |-> "b", parent_station |-> pb],
        [stop_id |-> "c", parent_station |-> ""]>> :
          pa \in {"", "a", "b"}, pb \in {"", "a"} }

WalkDatasets ==
    { [routes |-> RouteRows, services |-> ServiceRows,
       trips |-> <<TripRowT1, TripRowT2>>, stops |-> st,
       stop_times |-> StopTimeRowsT1 \o StopTimeRowsT2] : st \in WalkStopTables }

LoadStopTable ==
    /\ loads < MaxLoads
    /\ \E ds \in WalkDatasets : store' = ReloadTick(store, ds, today)
    /\ loads' = loads + 1
    /\ last' = [op |-> "load"]
    /\ UNCHANGED <<today, patches, concVars, calVars>>

\* get_stop_time_instances_between: the ids the walk yields are looked up in
\* the stop lists until the walk raises
WalkForInstances ==
    /\ \E stop_id \in {"a", "b", "c"} :
          LET w == WalkFrom(store.children_stops, stop_id, RecursionLimit)
          IN /\ store' = [store EXCEPT
                             !.children_stops = TouchAll(@, w.ids, <<>>),
                             !.stop_time_instances_by_stop = TouchAll(@, w.ids, <<>>)]
             /\ last' = [op |-> "walk_for_instances", stop_id |-> stop_id,
                         raised |-> w.raised]
    /\ UNCHANGED <<today, loads, patches, concVars, calVars>>

\* get_stops_by_route_type: the walks of the stops, in the order of the stop
\* table, until one raises
RECURSIVE WalkStops(_, _)
WalkStops(s, i) ==
    IF i > Len(s.stops) THEN [ids |-> <<>>, raised |-> FALSE]
    ELSE LET h == WalkFrom(s.children_stops, s.stops[i].id, RecursionLimit)
         IN IF h.raised THEN h
            ELSE LET t == WalkStops(s, i + 1)
                 IN [ids |-> h.ids \o t.ids, raised |-> t.raised]

WalkForStops ==
    /\ LET w == WalkStops(store, 1)
       IN /\ store' = [store EXCEPT
                          !.children_stops = TouchAll(@, w.ids, <<>>),
                          !.route_types_by_stop = TouchAll(@, w.ids, {})]
          /\ last' = [op |-> "walk_for_stops", stop_id |-> None,
                      raised |-> w.raised]
    /\ UNCHANGED <<today, loads, patches, concVars, calVars>>

NextWalk ==
    \/ LoadStopTable
    \/ WalkForInstances
    \/ WalkForStops

SpecWalk == Init /\ [][NextWalk]_vars

\* C40: for every loaded stop table the descendant walk of
\* get_stop_time_instances_between and of get_stops_by_route_type comes to
\* its end: the recursion does not exceed the limit of the interpreter.
C40_WalksTerminate ==
    last.op \in {"walk_for_instances", "walk_for_stops"} => ~last.raised

=============================================================================
